---- MODULE Spec2Model ----
(***************************************************************************)
(* Request-admission and answer-serving core of the WhatsApp ordering      *)
(* assistant: the rate limiter (rate_limiter.py), the engine cache         *)
(* (RAGCacheManager, app.py) and the query cache (RAGCache, Rag.py).       *)
(*                                                                         *)
(* Times are whole seconds.  A token bucket refills request_per_minitue/60 *)
(* tokens per second, so token counts are kept in sixtieths of a token     *)
(* (TokenUnit), which makes the refill arithmetic exact.                   *)
(***************************************************************************)
EXTENDS Integers, Sequences, FiniteSets, TLC

VARIABLES
    \* ---- RateLimiter (rate_limiter.py) ----
    config,            \* RateLimiter.config
    now,               \* time.time()
    limiter,           \* the RateLimiter object: its dictionaries, stats and _last_cleanup
    ret,               \* the last call: its arguments and what it returned or raised
    suspect_since,     \* history: user_id -> time of the suspicious-activity block in force
    alone              \* history: user_id -> a limiter that has seen this identity's calls only

VARIABLES
    \* ---- one TokenBucket on its own ----
    bucket,            \* the TokenBucket object
    bucket_ret,        \* the last consume: its argument and result
    \* ---- one SlidingWindowCounter on its own ----
    counter,           \* the SlidingWindowCounter object
    recorded,          \* history: every timestamp passed to add_request, in order
    counter_ret        \* the last call on the counter and its result

VARIABLES
    \* ---- RAGCacheManager (app.py) and the tasks calling it ----
    rag_cache,         \* the RAGCacheManager object
    calls,             \* task -> its get_or_create_rag call: position and locals
    bots,              \* history: every RAGBot constructed, in order; a bot is its index
    \* ---- RAGCache (Rag.py): the query cache of one engine ----
    engine_cache,      \* the RAGCache object
    query_ret          \* the last call on it and its result

VARIABLES
    \* ---- one RAGBot (Rag.py) and the services it calls ----
    engine,            \* the RAGBot object and the requests it has issued
    reply,             \* the last call on it: its inputs and what it returned or raised
    \* ---- handle_message (app.py): the webhook's messages in flight ----
    hook,              \* message -> its position in handle_message and what it did so far
    \* ---- check_rate_limit statement by statement, threads of one identity ----
    race               \* the identity's trackers, the objects created, each thread's position

VARIABLES
    \* ---- RAGCache (Rag.py): the conversation history ----
    history,           \* the RAGCache object: its conversation_history and its cap
    turns              \* history: every add_to_history call so far, in order

rlVars == <<config, limiter, ret, suspect_since, alone>>
tbVars == <<bucket, bucket_ret>>
swVars == <<counter, recorded, counter_ret>>
cmVars == <<rag_cache, calls, bots>>
qcVars == <<engine_cache, query_ret>>
egVars == <<engine, reply>>
whVars == <<hook>>
rcVars == <<race>>
hsVars == <<history, turns>>

vars == <<now, rlVars, tbVars, swVars, cmVars, qcVars, egVars, whVars, rcVars, hsVars>>

(***************************************************************************)
(* Bounds of the model.                                                    *)
(***************************************************************************)
MaxRequests == 4        \* check_rate_limit calls in a run
MaxCapacity == 2        \* capacity of the lone token bucket
MaxAsk == 2             \* tokens asked of it in one consume
MaxBucketTime == 6      \* seconds the lone token bucket is watched
MaxWindow == 2          \* window_size of the lone sliding counter
MaxEvents == 3          \* add_request calls on it
MaxWindowTime == 5      \* seconds it is watched
MaxCacheSize == 1       \* largest max_cache_size of the engine cache
MaxLookups == 2         \* get_or_create_rag calls started after that many lookups: none
MaxCacheTicks == 0      \* seconds the engine cache is watched beyond its TTL
MaxQueryCache == 2      \* largest max_query_cache of the query cache
MaxQueryTicks == 1      \* seconds the query cache is watched beyond max_age_seconds
MaxSweepCalls == 3      \* check_rate_limit calls in the runs that look at the sweep
MaxRetrievals == 3      \* retrievals in the runs that look up contexts over time
MaxRetryCalls == 5      \* check_rate_limit calls of the identity that heeds retry hints
MaxHistory == 2         \* largest max_history_size of the conversation history
MaxTurns == 3           \* add_to_history calls in a run
MaxThreads == 2         \* threads inside check_rate_limit for one identity
MaxMessages == 2        \* inbound messages the webhook handles
MaxEngineCalls == 2     \* requests of either kind an engine issues before its last call

(***************************************************************************)
(* Python values.                                                          *)
(***************************************************************************)
None == -1                       \* the None of an Optional[int]
NoReason == "None"               \* the None of an Optional[str]

EmptyDict == <<>>
Put(d, k, v) == [x \in (DOMAIN d) \cup {k} |-> IF x = k THEN v ELSE d[x]]
Pop(d, k) == [x \in (DOMAIN d) \ {k} |-> d[x]]

Min(a, b) == IF a <= b THEN a ELSE b
Max(a, b) == IF a >= b THEN a ELSE b

(***************************************************************************)
(* Messages.  A message is the string  chars \o "x"^fill : a short prefix  *)
(* over Chars followed by fill filler letters, so that a message of 4001   *)
(* characters needs no sequence of that length.                            *)
(***************************************************************************)
Chars == {"a", "A", "b", " "}

Str(chars, fill) == [chars |-> chars, fill |-> fill]

\* len(message)
StrLen(m) == Len(m.chars) + m.fill

\* str.lower(), one character
LowerChar(c) == IF c = "A" THEN "a" ELSE c

\* str.lower()
Lower(m) == [m EXCEPT !.chars = [i \in 1..Len(m.chars) |-> LowerChar(m.chars[i])]]

RECURSIVE LStrip(_)
LStrip(cs) == IF cs # <<>> /\ Head(cs) = " " THEN LStrip(Tail(cs)) ELSE cs

RECURSIVE RStrip(_)
RStrip(cs) ==
    IF cs # <<>> /\ cs[Len(cs)] = " " THEN RStrip(SubSeq(cs, 1, Len(cs) - 1)) ELSE cs

\* str.strip(): the filler letters are not whitespace, so they shield the prefix's tail
Strip(m) ==
    [m EXCEPT !.chars = IF m.fill = 0 THEN RStrip(LStrip(m.chars)) ELSE LStrip(m.chars)]

\* hashlib.md5(message.lower().strip().encode()).hexdigest(), taken as collision-free
message_hash(m) == Strip(Lower(m))

(***************************************************************************)
(* TokenBucket.  tokens and refill_rate are in sixtieths of a token.       *)
(***************************************************************************)
TokenUnit == 60

TokenBucket(capacity, refill_rate, t) ==
    [capacity |-> capacity, refill_rate |-> refill_rate,
     tokens |-> capacity * TokenUnit, last_refill |-> t]

\* a refill that forgets to move last_refill
RefillKeepsClock(b, t) ==
    [b EXCEPT !.tokens = Min(b.capacity * TokenUnit, b.tokens + (t - b.last_refill) * b.refill_rate)]

\* a refill without the cap at capacity
RefillUncapped(b, t) ==
    [b EXCEPT !.tokens = b.tokens + (t - b.last_refill) * b.refill_rate,
              !.last_refill = t]

\* the refill of consume: min(capacity, tokens + elapsed * refill_rate)
Refill(b, t) ==
    [b EXCEPT !.tokens = Min(b.capacity * TokenUnit, b.tokens + (t - b.last_refill) * b.refill_rate),
              !.last_refill = t]

\* a consume that takes the tokens without comparing them with what is there
consume_unchecked(b, n, t) ==
    LET r == Refill(b, t) IN
    [bucket |-> [r EXCEPT !.tokens = @ - n * TokenUnit], ok |-> TRUE]

\* TokenBucket.consume(tokens = n) at time t: the bucket after the call and the result
consume(b, n, t) ==
    LET r == Refill(b, t) IN
    IF r.tokens >= n * TokenUnit
    THEN [bucket |-> [r EXCEPT !.tokens = @ - n * TokenUnit], ok |-> TRUE]
    ELSE [bucket |-> r, ok |-> FALSE]

\* a get_wait_time that is a second short
get_wait_time_short(b) ==
    IF b.tokens >= TokenUnit THEN 0 ELSE Max(0, (TokenUnit - b.tokens) \div b.refill_rate - 1)

\* int(TokenBucket.get_wait_time()): whole seconds until one token is there
get_wait_time(b) ==
    IF b.tokens >= TokenUnit THEN 0 ELSE (TokenUnit - b.tokens) \div b.refill_rate

(***************************************************************************)
(* SlidingWindowCounter.                                                   *)
(***************************************************************************)
SlidingWindowCounter(window_size) == [window_size |-> window_size, request |-> <<>>]

\* an eviction that also drops the event sitting exactly on the cutoff
RECURSIVE PopWhileNotAbove(_, _)
PopWhileNotAbove(q, cutoff) ==
    IF q # <<>> /\ Head(q) <= cutoff THEN PopWhileNotAbove(Tail(q), cutoff) ELSE q

\* while q and q[0] < cutoff: q.popleft()
RECURSIVE PopWhileBelow(_, _)
PopWhileBelow(q, cutoff) ==
    IF q # <<>> /\ Head(q) < cutoff THEN PopWhileBelow(Tail(q), cutoff) ELSE q

\* SlidingWindowCounter._cleanup
_cleanup(c, current_time) ==
    [c EXCEPT !.request = PopWhileBelow(@, current_time - c.window_size)]

\* SlidingWindowCounter.add_request
add_request(c, timestamp) ==
    _cleanup([c EXCEPT !.request = Append(@, timestamp)], timestamp)

\* SlidingWindowCounter.get_count: the counter after the call (it evicts) and the count
get_count(c, timestamp) ==
    LET d == _cleanup(c, timestamp) IN [counter |-> d, count |-> Len(d.request)]

(***************************************************************************)
(* RateLimiter.                                                            *)
(***************************************************************************)
MinuteWindow == 60
HourWindow == 3600
DayWindow == 86400
cleanup_interval == 300
LastMessageHorizon == 3600
DuplicateRetry == 30
BurstRetry == 10
MinuteRetry == 60
HourRetry == 300
DayRetry == 3600

BlockedReason == "Temporary block due to suspicious activity"
DuplicateReason == "Duplicated message detected. Please wait before responding."
TooLongReason == "Message too long. Please keep it under 2000 character."
BurstReason == "Too many requests in short time. Please slow down."
TokenReason == "Rate limit exceeded. Please wait."
SuspiciousReason == "Suspicious activity detected. Temporarily blocked."
MinuteReason == "Too many requests in per minute. Please wait."
HourReason == "Hourly request limit reached. Please try again later."
DayReason == "Dailty request limit reached. Please try again tommorow."

\* RateLimiter.__init__: self.stats
InitStats ==
    [k \in {"total_requests", "blocked_requests", "spam_detected", "burst_violations"} |-> 0]

\* RateLimiter.__init__ at time t
RateLimiter(t) ==
    [token_bucket |-> EmptyDict, minitue_counters |-> EmptyDict,
     hour_counters |-> EmptyDict, day_counters |-> EmptyDict,
     last_messages |-> EmptyDict, burst_tracker |-> EmptyDict,
     blocked_users |-> EmptyDict, stats |-> InitStats, last_cleanup |-> t]

\* return allowed, reason, retry_after
Return(S, allowed, reason, retry_after) ==
    [state |-> S,
     out |-> [kind |-> "return", allowed |-> allowed, reason |-> reason,
              retry_after |-> retry_after]]

\* an exception leaving the call
Raise(S, exception) ==
    [state |-> S,
     out |-> [kind |-> "raise", allowed |-> FALSE, reason |-> exception,
              retry_after |-> None]]

\* self.stats[key] += 1 on a plain dict: a KeyError when the key is missing
StatsHasKey(st, key) == key \in DOMAIN st
StatsIncr(st, key) == [st EXCEPT ![key] = @ + 1]

\* the stage tests of check_rate_limit, each on the values the code tests
IsBlocked(blocked, user_id, current_time) ==
    user_id \in DOMAIN blocked /\ current_time < blocked[user_id]

IsDuplicate(last, user_id, hash, current_time, cfg) ==
    /\ user_id \in DOMAIN last
    /\ last[user_id].hash = hash
    /\ current_time - last[user_id].time < cfg.duplicate_message_window

IsTooLong(message, cfg) == StrLen(message) > cfg.max_message_lengh

IsBurst(tracker, cfg) == Len(tracker) > cfg.brust_size

\* a limiter that has no suspicious-activity test
NeverSuspicious(minute_count, cfg) == FALSE

\* a test that also fires at the threshold itself
IsSuspiciousAtThreshold(minute_count, cfg) ==
    minute_count >= cfg.suspicious_requests_per_minitue

IsSuspicious(minute_count, cfg) == minute_count > cfg.suspicious_requests_per_minitue

\* a sweep that takes every identity it knows for inactive
EveryUser(day) == DOMAIN day

\* _cleanup_old_data: the identities whose day counter counts 0
InactiveUsers(day) == {u \in DOMAIN day : Len(day[u].request) = 0}

\* RateLimiter._cleanup_old_data
_cleanup_old_data(S, current_time) ==
    LET old_users == {u \in DOMAIN S.last_messages :
                          S.last_messages[u].time < current_time - LastMessageHorizon}
        expired_blocks == {u \in DOMAIN S.blocked_users :
                               current_time >= S.blocked_users[u]}
        \* get_count evicts from every day counter it looks at
        day == [u \in DOMAIN S.day_counters |->
                    get_count(S.day_counters[u], current_time).counter]
        inactive_users == InactiveUsers(day)
        drop(d) == [u \in (DOMAIN d) \ inactive_users |-> d[u]]
        S1 == [S EXCEPT !.last_cleanup = current_time,
                        !.last_messages = [u \in (DOMAIN @) \ old_users |-> @[u]],
                        !.blocked_users = [u \in (DOMAIN @) \ expired_blocks |-> @[u]],
                        !.token_bucket = drop(@),
                        !.minitue_counters = drop(@),
                        !.hour_counters = drop(@),
                        !.day_counters = drop(day),
                        !.burst_tracker = drop(@)]
    IN  \* logger.logging.info: the logger object has no attribute "logging"
        IF inactive_users # {}
        THEN [state |-> S1, raised |-> TRUE]
        ELSE [state |-> S1, raised |-> FALSE]

\* check_rate_limit from the window counters on (lines 155-179)
WindowStage(S, cfg, user_id, current_time) ==
    LET mc == add_request(S.minitue_counters[user_id], current_time)
        hc == add_request(S.hour_counters[user_id], current_time)
        dc == add_request(S.day_counters[user_id], current_time)
        mg == get_count(mc, current_time)
        hg == get_count(hc, current_time)
        dg == get_count(dc, current_time)
        S1 == [S EXCEPT !.minitue_counters[user_id] = mg.counter,
                        !.hour_counters[user_id] = hg.counter,
                        !.day_counters[user_id] = dg.counter]
    IN  IF IsSuspicious(mg.count, cfg)
        THEN Return([S1 EXCEPT !.blocked_users =
                                   Put(@, user_id, current_time + cfg.block_durtion),
                               !.stats = StatsIncr(@, "blocked_requests")],
                    FALSE, SuspiciousReason, cfg.block_durtion)
        ELSE IF mg.count > cfg.request_per_minitue
        THEN Return(S1, FALSE, MinuteReason, MinuteRetry)
        ELSE IF hg.count > cfg.request_per_hour
        THEN Return(S1, FALSE, HourReason, HourRetry)
        ELSE IF dg.count > cfg.request_per_day
        THEN Return(S1, FALSE, DayReason, DayRetry)
        ELSE IF current_time - S1.last_cleanup > cleanup_interval
        THEN LET c == _cleanup_old_data(S1, current_time) IN
             IF c.raised THEN Raise(c.state, "AttributeError")
             ELSE Return(c.state, TRUE, NoReason, None)
        ELSE Return(S1, TRUE, NoReason, None)

\* check_rate_limit from the burst queue on (lines 139-153)
BurstStage(S, cfg, user_id, current_time) ==
    LET tracker == PopWhileBelow(Append(S.burst_tracker[user_id], current_time),
                                 current_time - cfg.brust_window)
        S1 == [S EXCEPT !.burst_tracker[user_id] = tracker]
    IN  IF IsBurst(tracker, cfg)
        THEN IF StatsHasKey(S1.stats, "burst_voilations")
             THEN Return([S1 EXCEPT !.stats = StatsIncr(@, "burst_voilations")],
                         FALSE, BurstReason, BurstRetry)
             ELSE Raise(S1, "KeyError")
        ELSE LET c == consume(S1.token_bucket[user_id], 1, current_time)
                 S2 == [S1 EXCEPT !.token_bucket[user_id] = c.bucket]
             IN  IF ~c.ok
                 THEN Return(S2, FALSE, TokenReason, get_wait_time(c.bucket) + 1)
                 ELSE WindowStage(S2, cfg, user_id, current_time)

\* a call that leaves the record of the last message as it was
KeepLastMessage(S, user_id, hash, current_time) == S

\* self.last_messages[user_id] = (message_hash, current_time)
StoreLastMessage(S, user_id, hash, current_time) ==
    [S EXCEPT !.last_messages = Put(@, user_id, [hash |-> hash, time |-> current_time])]

\* a duplicate rejection that records the rejected message as the last one
CountAndStoreDuplicate(S, user_id, hash, current_time) ==
    [StoreLastMessage(S, user_id, hash, current_time)
         EXCEPT !.stats = StatsIncr(@, "spam_detected")]

\* the duplicate rejection (lines 129-131): the statistics only
CountDuplicate(S, user_id, hash, current_time) ==
    [S EXCEPT !.stats = StatsIncr(@, "spam_detected")]

\* check_rate_limit from the tracker initialisation on (lines 116-137)
MessageStage(S, cfg, user_id, message, current_time) ==
    LET S1 == IF user_id \notin DOMAIN S.token_bucket
              THEN [S EXCEPT !.token_bucket =
                        Put(@, user_id,
                            TokenBucket(cfg.brust_size, cfg.request_per_minitue, current_time))]
              ELSE S
        S2 == IF user_id \notin DOMAIN S1.minitue_counters
              THEN [S1 EXCEPT
                      !.minitue_counters = Put(@, user_id, SlidingWindowCounter(MinuteWindow)),
                      !.hour_counters = Put(@, user_id, SlidingWindowCounter(HourWindow)),
                      !.day_counters = Put(@, user_id, SlidingWindowCounter(DayWindow)),
                      !.burst_tracker = Put(@, user_id, <<>>)]
              ELSE S1
        hash == message_hash(message)
    IN  IF IsDuplicate(S2.last_messages, user_id, hash, current_time, cfg)
        THEN Return(CountDuplicate(S2, user_id, hash, current_time),
                    FALSE, DuplicateReason, DuplicateRetry)
        ELSE LET S3 == StoreLastMessage(S2, user_id, hash, current_time)
             IN  IF IsTooLong(message, cfg)
                 THEN Return(S3, FALSE, TooLongReason, None)
                 ELSE BurstStage(S3, cfg, user_id, current_time)

\* RateLimiter.check_rate_limit, for the identity user_id at time current_time
check_rate_limit(S, cfg, user_id, message, current_time) ==
    LET S0 == [S EXCEPT !.stats = StatsIncr(@, "total_requests")] IN
    IF IsBlocked(S0.blocked_users, user_id, current_time)
    THEN Return(S0, FALSE, BlockedReason, S0.blocked_users[user_id] - current_time)
    ELSE MessageStage([S0 EXCEPT !.blocked_users = Pop(@, user_id)],
                      cfg, user_id, message, current_time)

\* RateLimiter.unblock_user
unblock_user(S, user_id) ==
    IF user_id \in DOMAIN S.blocked_users
    THEN [state |-> [S EXCEPT !.blocked_users = Pop(@, user_id)], result |-> TRUE]
    ELSE [state |-> S, result |-> FALSE]

\* RateLimiter.reset_user_limits
reset_user_limits(S, user_id) ==
    [S EXCEPT !.token_bucket = Pop(@, user_id),
              !.minitue_counters = Pop(@, user_id),
              !.day_counters = Pop(@, user_id),
              !.hour_counters = Pop(@, user_id),
              !.burst_tracker = Pop(@, user_id),
              !.last_messages = Pop(@, user_id),
              !.blocked_users = Pop(@, user_id)]

(***************************************************************************)
(* The rate limiter as a state machine: sequential calls at non-decreasing *)
(* times.                                                                  *)
(***************************************************************************)
\* RateLimitConfig: the fields the limits below do not vary
brust_window == 60
duplicate_message_window == 10
max_message_lengh == 4000
block_durtion == 120

RateLimitConfig(rpm, rph, rpd, burst, suspicious) ==
    [request_per_minitue |-> rpm, request_per_hour |-> rph, request_per_day |-> rpd,
     brust_size |-> burst, brust_window |-> brust_window,
     duplicate_message_window |-> duplicate_message_window,
     max_message_lengh |-> max_message_lengh,
     suspicious_requests_per_minitue |-> suspicious, block_durtion |-> block_durtion]

\* The configurations explored: the default's shape (suspicious < burst < per-minute
\* < per-hour < per-day) with small limits, and ones whose burst, token, per-minute,
\* per-hour and per-day limits are the first to bite.
Configs ==
    { RateLimitConfig(3, 4, 5, 2, 1),
      RateLimitConfig(1, 4, 5, 2, 2),
      RateLimitConfig(3, 1, 5, 3, 3),
      RateLimitConfig(3, 4, 1, 3, 3) }

Users == {"u1"}

\* "a", " A " (the same after lower-casing and trimming), a "b..." of exactly the
\* maximum length and an "a..." one character longer
Messages ==
    { Str(<<"a">>, 0), Str(<<" ", "A", " ">>, 0),
      Str(<<"b">>, max_message_lengh - 1), Str(<<"a">>, max_message_lengh) }

\* seconds between one call and the next
Delays == {0, 9, 10, 61, 120}

NoCall ==
    [op |-> "none", user |-> "", message |-> Str(<<>>, 0), time |-> 0,
     kind |-> "none", allowed |-> FALSE, reason |-> NoReason, retry_after |-> None,
     suspect |-> None, heeded |-> FALSE]

RLIdle ==
    /\ config = RateLimitConfig(0, 0, 0, 0, 0)
    /\ limiter = RateLimiter(0)
    /\ ret = NoCall
    /\ suspect_since = EmptyDict
    /\ alone = EmptyDict

RLInit(configs) ==
    /\ config \in configs
    /\ now = 0
    /\ limiter = RateLimiter(0)
    /\ ret = NoCall
    /\ suspect_since = EmptyDict
    /\ alone = EmptyDict

\* check_rate_limit(phone, client, message) at time now + delay, on the limiter
CallLimiter(user_id, message, delay) ==
    /\ LET t == now + delay IN
       \E r \in {check_rate_limit(limiter, config, user_id, message, t)} :
           /\ now' = t
           /\ limiter' = r.state
           /\ ret' = [op |-> "check", user |-> user_id, message |-> message, time |-> t,
                      kind |-> r.out.kind, allowed |-> r.out.allowed,
                      reason |-> r.out.reason, retry_after |-> r.out.retry_after,
                      suspect |-> IF user_id \in DOMAIN suspect_since
                                  THEN suspect_since[user_id] ELSE None,
                      \* history: the call before was a token rejection of this
                      \* identity, and its hint has been waited out
                      heeded |-> /\ ret.op = "check" /\ ret.user = user_id
                                 /\ ret.kind = "return" /\ ret.reason = TokenReason
                                 /\ delay >= ret.retry_after]
           /\ suspect_since' =
                  IF r.out.kind = "return" /\ r.out.reason = SuspiciousReason
                  THEN Put(suspect_since, user_id, t)
                  ELSE IF user_id \in DOMAIN suspect_since
                          /\ t >= suspect_since[user_id] + config.block_durtion
                  THEN Pop(suspect_since, user_id)
                  ELSE suspect_since
    /\ UNCHANGED <<config, tbVars, swVars, cmVars, qcVars, egVars, whVars, rcVars, hsVars>>

\* check_rate_limit(phone, client, message) at time now + delay
Call(user_id, message, delay) ==
    /\ CallLimiter(user_id, message, delay)
    /\ alone' = alone

\* One inbound message: check_rate_limit(phone, client, message) at time now + delay.
Check(user_id, message, delay) ==
    /\ limiter.stats["total_requests"] < MaxRequests
    /\ Call(user_id, message, delay)

\* The administrative endpoint /rate-limit/unblock.
Unblock(user_id) ==
    /\ user_id \in DOMAIN limiter.blocked_users
    /\ \E r \in {unblock_user(limiter, user_id)} :
       /\ limiter' = r.state
       /\ ret' = [NoCall EXCEPT !.op = "unblock", !.user = user_id, !.time = now,
                                !.kind = "return", !.allowed = r.result]
    /\ suspect_since' = Pop(suspect_since, user_id)
    /\ UNCHANGED <<config, alone, now, tbVars, swVars, cmVars, qcVars, egVars, whVars, rcVars, hsVars>>

\* The administrative endpoint /rate-limit/reset.
Reset(user_id) ==
    /\ user_id \in DOMAIN limiter.token_bucket \/ user_id \in DOMAIN limiter.blocked_users
    /\ limiter' = reset_user_limits(limiter, user_id)
    /\ ret' = [NoCall EXCEPT !.op = "reset", !.user = user_id, !.time = now,
                             !.kind = "return"]
    /\ suspect_since' = Pop(suspect_since, user_id)
    /\ UNCHANGED <<config, alone, now, tbVars, swVars, cmVars, qcVars, egVars, whVars, rcVars, hsVars>>

RLNext ==
    \/ \E u \in Users, m \in Messages, d \in Delays : Check(u, m, d)
    \/ \E u \in Users : Unblock(u)
    \/ \E u \in Users : Reset(u)

\* Two identities over a day and more: the runs in which the periodic sweep has
\* something to purge.
SweepConfigs == { RateLimitConfig(3, 4, 5, 2, 1) }
SweepUsers == {"u1", "u2"}
SweepMessages == { Str(<<"a">>, 0), Str(<<"b">>, max_message_lengh - 1) }
SweepDelays == {0, block_durtion, cleanup_interval + 1, LastMessageHorizon + 1, DayWindow + 1}

SweepNext ==
    \/ \E u \in SweepUsers, m \in SweepMessages, d \in SweepDelays : Check(u, m, d)
    \/ \E u \in SweepUsers : Unblock(u)
    \/ \E u \in SweepUsers : Reset(u)

(***************************************************************************)
(* Two identities and few calls, at the distances at which a sweep finds   *)
(* an unexpired block, an expired one, a young and an old last-message     *)
(* record, an identity with an event in the day window and one with events *)
(* only from the day before.                                               *)
(***************************************************************************)
PurgeMessages == { Str(<<"a">>, 0), Str(<<"b">>, 0) }

PurgeDelays ==
    {0, brust_window + 1, 2 * block_durtion, cleanup_interval + 1, LastMessageHorizon + 1,
     DayWindow + 1}

\* history: the same call on a limiter that has seen the calls of this identity only
AloneLimiter(user_id) ==
    IF user_id \in DOMAIN alone THEN alone[user_id].state ELSE RateLimiter(0)

CheckSweep(user_id, message, delay) ==
    /\ limiter.stats["total_requests"] < MaxSweepCalls
    /\ CallLimiter(user_id, message, delay)
    /\ alone' = Put(alone, user_id,
                    check_rate_limit(AloneLimiter(user_id), config, user_id, message,
                                     now + delay))

PurgeNext == \E u \in SweepUsers, m \in PurgeMessages, d \in PurgeDelays : CheckSweep(u, m, d)

(***************************************************************************)
(* One identity that asks again after a rejection, with the same message   *)
(* or after the time it was told to wait: slow refill, so that the bucket  *)
(* can run dry while the burst queue has room, and a configuration in      *)
(* which the second message of a minute is suspicious.                     *)
(***************************************************************************)
RetryConfigs ==
    { RateLimitConfig(1, 50, 50, 2, 50), RateLimitConfig(1, 50, 50, 3, 50),
      RateLimitConfig(3, 50, 50, 3, 1) }

RetryMessages == {Str(<<"a">>, 0), Str(<<"b">>, 0), Str(<<"a">>, max_message_lengh)}

\* at once, just inside the duplicate window, after the burst window has passed,
\* or after the hint of the rejection before
RetryDelays ==
    {0, duplicate_message_window - 1, brust_window + 1}
        \cup (IF ret.retry_after = None THEN {} ELSE {ret.retry_after})

CheckAfter(message, delay) ==
    /\ limiter.stats["total_requests"] < MaxRetryCalls
    /\ Call("u1", message, delay)

RetryNext == \E m \in RetryMessages, d \in RetryDelays : CheckAfter(m, d)

(***************************************************************************)
(* One TokenBucket, consumed from at non-decreasing times.                 *)
(***************************************************************************)
\* refill rates, in sixtieths of a token per second
RefillRates == {1, 20, 60, 90}

BucketDelays == {0, 1, 2}

NoBucket == TokenBucket(0, 0, 0)
\* granted: the times of the calls that returned True so far
NoConsume ==
    [op |-> "none", asked |-> 0, time |-> 0, ok |-> FALSE, before |-> NoBucket,
     granted |-> <<>>]

BucketIdle == bucket = NoBucket /\ bucket_ret = NoConsume

BucketInit ==
    /\ bucket \in {TokenBucket(c, r, 0) : c \in 1..MaxCapacity, r \in RefillRates}
    /\ bucket_ret = NoConsume

\* TokenBucket.consume(n) at time now + delay
Consume(n, delay) ==
    /\ now + delay <= MaxBucketTime
    /\ now' = now + delay
    /\ \E r \in {consume(bucket, n, now + delay)} :
          /\ bucket' = r.bucket
          /\ bucket_ret' = [op |-> "consume", asked |-> n, time |-> now + delay,
                            ok |-> r.ok, before |-> bucket,
                            granted |-> IF r.ok THEN Append(bucket_ret.granted, now + delay)
                                        ELSE bucket_ret.granted]
    /\ UNCHANGED <<rlVars, swVars, cmVars, qcVars, egVars, whVars, rcVars, hsVars>>

BucketNext == \E n \in 1..MaxAsk, d \in BucketDelays : Consume(n, d)

(***************************************************************************)
(* One SlidingWindowCounter, used at non-decreasing times.                 *)
(***************************************************************************)
WindowDelays == {0, 1, 2}

NoCounter == SlidingWindowCounter(0)
NoCount == [op |-> "none", time |-> 0, count |-> 0]

CounterIdle == counter = NoCounter /\ recorded = <<>> /\ counter_ret = NoCount

CounterInit ==
    /\ counter \in {SlidingWindowCounter(w) : w \in 1..MaxWindow}
    /\ recorded = <<>>
    /\ counter_ret = NoCount

\* SlidingWindowCounter.add_request(now + delay)
AddRequest(delay) ==
    /\ now + delay <= MaxWindowTime
    /\ Len(recorded) < MaxEvents
    /\ now' = now + delay
    /\ counter' = add_request(counter, now + delay)
    /\ recorded' = Append(recorded, now + delay)
    /\ counter_ret' = [op |-> "add_request", time |-> now + delay, count |-> 0]
    /\ UNCHANGED <<rlVars, tbVars, cmVars, qcVars, egVars, whVars, rcVars, hsVars>>

\* SlidingWindowCounter.get_count(now + delay)
GetCount(delay) ==
    /\ now + delay <= MaxWindowTime
    /\ now' = now + delay
    /\ \E r \in {get_count(counter, now + delay)} :
          /\ counter' = r.counter
          /\ counter_ret' = [op |-> "get_count", time |-> now + delay, count |-> r.count]
    /\ UNCHANGED <<recorded, rlVars, tbVars, cmVars, qcVars, egVars, whVars, rcVars, hsVars>>

CounterNext ==
    \/ \E d \in WindowDelays : AddRequest(d)
    \/ \E d \in WindowDelays : GetCount(d)

(***************************************************************************)
(* RAGCacheManager: the engine cache.  self._cache is a dict, which keeps  *)
(* insertion order: a sequence of entries.  Every use of the cache is      *)
(* inside "with self._lock", so each critical section is one step.         *)
(***************************************************************************)
ttl_seconds == 1800

NoBot == 0

\* RAGCacheManager.__init__
RAGCacheManager(max_cache_size) ==
    [cache |-> <<>>, ttl_seconds |-> ttl_seconds, max_cache_size |-> max_cache_size,
     hits |-> 0, misses |-> 0]

\* where client_id sits in the dict, 0 when it is no key
KeyIndex(cache, client_id) ==
    IF \E i \in 1..Len(cache) : cache[i].client_id = client_id
    THEN CHOOSE i \in 1..Len(cache) : cache[i].client_id = client_id
    ELSE 0

\* self._cache[client_id] = entry: an existing key keeps its place
SetItem(cache, entry) ==
    LET i == KeyIndex(cache, entry.client_id) IN
    IF i = 0 THEN Append(cache, entry) ELSE [cache EXCEPT ![i] = entry]

\* del self._cache[self._cache index i]
DelIndex(cache, i) == [j \in 1..(Len(cache) - 1) |-> IF j < i THEN cache[j] ELSE cache[j + 1]]

\* min(self._cache.keys(), key = expires_at): the first key with the least expires_at
OldestIndex(cache) ==
    CHOOSE i \in 1..Len(cache) :
        /\ \A j \in 1..Len(cache) : cache[i].expires_at <= cache[j].expires_at
        /\ \A j \in 1..(i - 1) : cache[j].expires_at > cache[i].expires_at

\* RAGCacheManager._evict_oldest
_evict_oldest(cache) == IF cache = <<>> THEN cache ELSE DelIndex(cache, OldestIndex(cache))

\* a hit test that still serves the entry at the instant it expires
IsHitAtExpiry(cache, client_id, current_time) ==
    /\ KeyIndex(cache, client_id) # 0
    /\ current_time <= cache[KeyIndex(cache, client_id)].expires_at

\* the cache-hit test of get_or_create_rag
IsHit(cache, client_id, current_time) ==
    /\ KeyIndex(cache, client_id) # 0
    /\ current_time < cache[KeyIndex(cache, client_id)].expires_at

\* the first critical section of get_or_create_rag (lines 115-124)
LookupSection(M, client_id, current_time) ==
    IF IsHit(M.cache, client_id, current_time)
    THEN [manager |-> [M EXCEPT !.hits = @ + 1], hit |-> TRUE,
          rag |-> M.cache[KeyIndex(M.cache, client_id)].rag]
    ELSE [manager |-> [M EXCEPT !.misses = @ + 1], hit |-> FALSE, rag |-> NoBot]

\* the second critical section of get_or_create_rag (lines 167-175)
InsertSection(M, client_id, rag, current_time) ==
    LET stored == SetItem(M.cache, [client_id |-> client_id, rag |-> rag,
                                    expires_at |-> current_time + M.ttl_seconds])
    IN  [M EXCEPT !.cache = IF Len(stored) > M.max_cache_size
                            THEN _evict_oldest(stored) ELSE stored]

Tasks == {"t1", "t2"}
Clients == {"client-A", "client-B"}
\* the instants watched: the first seconds, and the seconds around the expiry of
\* what was stored in them
CacheInstants == (0..MaxCacheTicks) \cup ((ttl_seconds - 1)..(ttl_seconds + MaxCacheTicks))

IdleCall == [pc |-> "idle", client_id |-> "", current_time |-> 0, rag |-> NoBot, hit |-> FALSE]

ManagerIdle ==
    /\ rag_cache = RAGCacheManager(0)
    /\ calls = [t \in Tasks |-> IdleCall]
    /\ bots = <<>>

ManagerInit ==
    /\ rag_cache \in {RAGCacheManager(n) : n \in 1..MaxCacheSize}
    /\ calls = [t \in Tasks |-> IdleCall]
    /\ bots = <<>>

\* a manager was constructed
ManagerExists == rag_cache.max_cache_size > 0

NotManager == <<rlVars, tbVars, swVars, qcVars, egVars, whVars, rcVars, hsVars>>

\* A task enters get_or_create_rag(client_id): current_time = time.time()  (line 112)
Begin(t, client_id) ==
    /\ ManagerExists
    /\ calls[t].pc = "idle"
    /\ rag_cache.hits + rag_cache.misses < MaxLookups
    /\ calls' = [calls EXCEPT ![t] = [IdleCall EXCEPT !.pc = "lookup",
                                                      !.client_id = client_id,
                                                      !.current_time = now]]
    /\ UNCHANGED <<now, rag_cache, bots, NotManager>>

\* with self._lock: the hit returns the cached engine, the miss goes on  (lines 115-124)
Lookup(t) ==
    /\ calls[t].pc = "lookup"
    /\ \E r \in {LookupSection(rag_cache, calls[t].client_id, calls[t].current_time)} :
          /\ rag_cache' = r.manager
          /\ calls' = [calls EXCEPT ![t].pc = IF r.hit THEN "returned" ELSE "fetch",
                                    ![t].hit = r.hit,
                                    ![t].rag = r.rag]
    /\ UNCHANGED <<now, bots, NotManager>>

\* get_client and the document tests, outside the lock: found, or return None, None
\* (lines 127-155)
Fetch(t, found) ==
    /\ calls[t].pc = "fetch"
    /\ calls' = [calls EXCEPT ![t].pc = IF found THEN "build" ELSE "returned"]
    /\ UNCHANGED <<now, rag_cache, bots, NotManager>>

\* rag = RAGBot(...), outside the lock: one more engine is constructed  (lines 157-164)
Build(t) ==
    /\ calls[t].pc = "build"
    /\ bots' = Append(bots, [client_id |-> calls[t].client_id,
                             created |-> calls[t].current_time])
    /\ calls' = [calls EXCEPT ![t].pc = "insert", ![t].rag = Len(bots) + 1]
    /\ UNCHANGED <<now, rag_cache, NotManager>>

\* RAGBot(...) raises: the handler of get_or_create_rag returns None, None
\* (lines 178-180)
BuildFails(t) ==
    /\ calls[t].pc = "build"
    /\ calls' = [calls EXCEPT ![t].pc = "returned"]
    /\ UNCHANGED <<now, rag_cache, bots, NotManager>>

\* with self._lock: store the engine, evict on overflow; return it  (lines 167-177)
Insert(t) ==
    /\ calls[t].pc = "insert"
    /\ rag_cache' = InsertSection(rag_cache, calls[t].client_id, calls[t].rag,
                                  calls[t].current_time)
    /\ calls' = [calls EXCEPT ![t].pc = "returned"]
    /\ UNCHANGED <<now, bots, NotManager>>

\* the caller takes the result; the task is free for its next message
Finish(t) ==
    /\ calls[t].pc = "returned"
    /\ calls' = [calls EXCEPT ![t] = IdleCall]
    /\ UNCHANGED <<now, rag_cache, bots, NotManager>>

\* time passes, up to a later instant
ManagerTick(later) ==
    /\ ManagerExists
    /\ later > now
    /\ now' = later
    /\ UNCHANGED <<cmVars, NotManager>>

ManagerNext ==
    \/ \E t \in Tasks, c \in Clients : Begin(t, c)
    \/ \E t \in Tasks : Lookup(t)
    \/ \E t \in Tasks, found \in BOOLEAN : Fetch(t, found)
    \/ \E t \in Tasks : Build(t)
    \/ \E t \in Tasks : BuildFails(t)
    \/ \E t \in Tasks : Insert(t)
    \/ \E t \in Tasks : Finish(t)
    \/ \E later \in CacheInstants : ManagerTick(later)

(***************************************************************************)
(* RAGCache: the query cache of one engine.  query_cache is a dict in      *)
(* insertion order; every method body runs under the cache's lock.         *)
(***************************************************************************)
max_age_seconds == 600

\* RAGCache.__init__
RAGCache(max_query_cache) == [query_cache |-> <<>>, max_query_cache |-> max_query_cache]

\* hashlib.sha256(query.lower().encode()).hexdigest(), taken as collision-free
query_hash(query) == Lower(query)

HashIndex(qc, key) ==
    IF \E i \in 1..Len(qc) : qc[i].key = key
    THEN CHOOSE i \in 1..Len(qc) : qc[i].key = key
    ELSE 0

\* self.query_cache[key] = entry: an existing key keeps its place
SetQuery(qc, entry) ==
    LET i == HashIndex(qc, entry.key) IN
    IF i = 0 THEN Append(qc, entry) ELSE [qc EXCEPT ![i] = entry]

\* self.query_cache.pop(key, None)
PopQuery(qc, key) ==
    LET i == HashIndex(qc, key) IN IF i = 0 THEN qc ELSE DelIndex(qc, i)

\* a cache_query_result that makes room only once the cache is over its size
cache_query_result_late(C, query, context, t) ==
    IF StrLen(query) = 0 \/ context = ""
    THEN C
    ELSE LET room == IF Len(C.query_cache) > C.max_query_cache
                     THEN Tail(C.query_cache) ELSE C.query_cache
         IN  [C EXCEPT !.query_cache =
                  SetQuery(room, [key |-> query_hash(query), context |-> context,
                                  timestamp |-> t])]

\* RAGCache.cache_query_result at time t
cache_query_result(C, query, context, t) ==
    IF StrLen(query) = 0 \/ context = ""
    THEN C
    ELSE LET room == IF Len(C.query_cache) >= C.max_query_cache
                     THEN Tail(C.query_cache) ELSE C.query_cache
         IN  [C EXCEPT !.query_cache =
                  SetQuery(room, [key |-> query_hash(query), context |-> context,
                                  timestamp |-> t])]

\* a freshness test that turns an entry away at the age limit itself
IsFreshBelow(entry, t, max_age) == t - entry.timestamp < max_age

\* the freshness test of get_cached_query
IsFresh(entry, t, max_age) == t - entry.timestamp <= max_age

\* RAGCache.get_cached_query at time t: the cache after the call and the entry
\* returned (found FALSE: None)
get_cached_query(C, query, max_age, t) ==
    LET key == query_hash(query)
        i == HashIndex(C.query_cache, key)
        none == [key |-> key, context |-> "", timestamp |-> 0]
    IN  IF StrLen(query) = 0
        THEN [cache |-> C, found |-> FALSE, data |-> none]
        ELSE IF i # 0 /\ IsFresh(C.query_cache[i], t, max_age)
        THEN [cache |-> C, found |-> TRUE, data |-> C.query_cache[i]]
        ELSE [cache |-> [C EXCEPT !.query_cache = PopQuery(@, key)],
              found |-> FALSE, data |-> none]

Queries == {Str(<<>>, 0), Str(<<"a">>, 0), Str(<<"A">>, 0), Str(<<"b">>, 0), Str(<<"c">>, 0)}
Contexts == {"", "ctx1"}
QueryInstants ==
    (0..MaxQueryTicks) \cup ((max_age_seconds - 1)..(max_age_seconds + MaxQueryTicks))

NoQuery ==
    [op |-> "none", query |-> Str(<<>>, 0), time |-> 0, found |-> FALSE,
     data |-> [key |-> Str(<<>>, 0), context |-> "", timestamp |-> 0],
     before |-> <<>>, retrieved |-> EmptyDict]

QueryIdle == engine_cache = RAGCache(0) /\ query_ret = NoQuery

QueryInit ==
    /\ engine_cache \in {RAGCache(n) : n \in 1..MaxQueryCache}
    /\ query_ret = NoQuery

\* a query cache was constructed
QueryCacheExists == engine_cache.max_query_cache > 0

NotQuery == <<rlVars, tbVars, swVars, cmVars, egVars, whVars, rcVars, hsVars>>

\* RAGCache.cache_query_result(query, context)
CacheQueryResult(query, context) ==
    /\ QueryCacheExists
    /\ engine_cache' = cache_query_result(engine_cache, query, context, now)
    /\ query_ret' = [NoQuery EXCEPT !.op = "cache_query_result", !.query = query,
                                    !.time = now, !.data.context = context,
                                    !.before = [i \in 1..Len(engine_cache.query_cache) |->
                                                  engine_cache.query_cache[i].key]]
    /\ UNCHANGED <<now, NotQuery>>

\* RAGCache.get_cached_query(query)
GetCachedQuery(query) ==
    /\ QueryCacheExists
    /\ \E r \in {get_cached_query(engine_cache, query, max_age_seconds, now)} :
          /\ engine_cache' = r.cache
          /\ query_ret' = [op |-> "get_cached_query", query |-> query, time |-> now,
                           found |-> r.found, data |-> r.data,
                           before |-> <<>>, retrieved |-> EmptyDict]
    /\ UNCHANGED <<now, NotQuery>>

\* time passes, up to a later instant
QueryTick(later) ==
    /\ QueryCacheExists
    /\ later > now
    /\ now' = later
    /\ UNCHANGED <<qcVars, NotQuery>>

QueryNext ==
    \/ \E q \in Queries, c \in Contexts : CacheQueryResult(q, c)
    \/ \E q \in Queries : GetCachedQuery(q)
    \/ \E later \in QueryInstants : QueryTick(later)

(***************************************************************************)
(* GeminiRESTChat._call_api.  A text is kept as its wording (emoji spelled  *)
(* out in brackets), its length in characters and its last character,      *)
(* which is all that the code looks at.                                    *)
(***************************************************************************)
Text(body, len, last) == [body |-> body, len |-> len, last |-> last]

EmptyText == Text("", 0, "")

TimeoutFallback ==
    Text("[hourglass] The request took too long - maybe the servers need a quick coffee break. Please try again soon [coffee]", 98, "[coffee]")
BadRequestFallback ==
    Text("Hmm... the request didn't look quite right. Could you please rephrase that?", 73, "?")
TooManyFallback ==
    Text("[sweat smile] Whoa, too many requests at once! Let's pause for a second and try again.", 74, ".")
ServerErrorFallback ==
    Text("The service seems to be having a rough day. Try again after a moment!", 69, "!")
UnreachableFallback ==
    Text("[confused] I'm having trouble reaching the service right now. Could you try again later?", 79, "?")
ConnectionFallback ==
    Text("[globe] Looks like there's a little network hiccup. Please check your connection and try again!", 89, "!")
BadJsonFallback ==
    Text("[robot] The server sent something strange that I couldn't read. Let's give it another try!", 84, "!")
NoCandidatesFallback ==
    Text("[bow] Sorry, I couldn't process that properly. Mind trying again?", 61, "?")
SafetyFallback ==
    Text("I cannot generate a response because it may violate content policies.", 69, ".")
NoTextFallback ==
    Text("I apologize, but I'm having trouble processing your request right now.", 70, ".")
ParsingFallback == Text("An internal error occurred while parsing the response.", 54, ".")
UnexpectedFallback ==
    Text("I encountered an unexpected error. Please try rephrasing your question.", 71, ".")

\* what requests.post and the body it got amount to: how the request ended, the
\* status, how the body parses, and what the first candidate holds
Upstream(outcome, status, json, candidates, finish, parts, text) ==
    [outcome |-> outcome, status |-> status, json |-> json, candidates |-> candidates,
     finish |-> finish, parts |-> parts, text |-> text]

\* the answer of the service when all goes well
Answer(text) == Upstream("response", 200, "object", TRUE, "STOP", "list", text)

\* the except clauses of response.raise_for_status(), by status
HttpErrorFallback(status_code) ==
    IF status_code = 400 THEN BadRequestFallback
    ELSE IF status_code = 429 THEN TooManyFallback
    ELSE IF status_code >= 500 THEN ServerErrorFallback
    ELSE UnreachableFallback

\* GeminiRESTChat._call_api: the string it returns
_call_api(r) ==
    IF r.outcome = "timeout" THEN TimeoutFallback
    ELSE IF r.outcome = "response" /\ r.status >= 400 THEN HttpErrorFallback(r.status)
    ELSE IF r.outcome = "connection" THEN ConnectionFallback
    ELSE IF r.outcome = "request_error" THEN UnreachableFallback
    ELSE IF r.json = "invalid" THEN BadJsonFallback
    ELSE IF r.json # "object" THEN UnexpectedFallback
    ELSE IF ~r.candidates THEN NoCandidatesFallback
    ELSE IF r.finish = "SAFETY" THEN SafetyFallback
    ELSE IF r.parts = "none" THEN NoTextFallback
    ELSE IF r.parts = "unreadable" THEN ParsingFallback
    ELSE IF r.text.len = 0 THEN NoTextFallback
    ELSE r.text

(***************************************************************************)
(* RAGBot: the chain and invoke.  The engine's retriever is always there   *)
(* (RAGBot.__init__ raises when it cannot be set up).  What the services   *)
(* outside the program do during one call is the call's env: whether the   *)
(* embedding request succeeds, the passages found, whether building the    *)
(* prompt throws, and what the generation service sends back.              *)
(***************************************************************************)
default_max_query_cache == 200

PleaseProvide == Text("Please provide a question.", 26, ".")
SystemNotReady == Text("System not ready. Please try again.", 35, ".")
IncompleteApology ==
    Text("I apologize, but I couldn't generate a proper response. Could you rephrase your question?", 89, "?")
InternalErrorApology ==
    Text("I encountered an error processing your request. Please try again later.", 71, ".")

InvalidQueryContext == "Invalid query."
NoDocumentsContext == "No relevant information found in the document."
ErrorContext == "Error retrieving context."

\* the characters a complete reply may end with: . ! ? and the danda, here "|"
EndPunctuation == {".", "!", "?", "|"}

\* RAGBot.__init__: the engine and the requests it has issued so far
RAGBot(chain) == [chain |-> chain, generation_requests |-> 0, embedding_requests |-> 0]

\* logger.log_error(function, error, context = None), called with that many
\* positional arguments and those keyword arguments
LogErrorParams == <<"function", "error", "context">>

log_error(positional, keywords) ==
    IF /\ positional <= Len(LogErrorParams)
       /\ keywords \subseteq { LogErrorParams[i] : i \in (positional + 1)..Len(LogErrorParams) }
    THEN "logged"
    ELSE "TypeError"

\* sanitize_query on the questions of the model, which hold no markup, control
\* characters or injection phrases and are shorter than max_length: strip()
sanitize_query(query) == Strip(query)

\* get_context of _setup_chain: the context, the cache after it and the embedding
\* requests issued
get_context(C, question, env, t) ==
    LET query == sanitize_query(question)
        looked == get_cached_query(C, query, max_age_seconds, t)
    IN  IF StrLen(query) = 0
        THEN [cache |-> C, context |-> InvalidQueryContext, embeddings |-> 0]
        ELSE IF looked.found
        THEN [cache |-> looked.cache, context |-> looked.data.context, embeddings |-> 0]
        ELSE IF env.embed # "ok"
        THEN [cache |-> looked.cache, context |-> ErrorContext, embeddings |-> 1]
        ELSE IF env.docs = ""
        THEN [cache |-> looked.cache, context |-> NoDocumentsContext, embeddings |-> 1]
        ELSE [cache |-> cache_query_result(looked.cache, query, env.docs, t),
              context |-> env.docs, embeddings |-> 1]

\* self.chain.invoke(inputs): context, prompt, one generation request, the text
chain_invoke(C, question, env, t) ==
    LET got == get_context(C, question, env, t) IN
    IF env.prompt_raises
    THEN [cache |-> got.cache, embeddings |-> got.embeddings, generations |-> 0,
          raised |-> TRUE, context |-> got.context, text |-> EmptyText]
    ELSE [cache |-> got.cache, embeddings |-> got.embeddings, generations |-> 1,
          raised |-> FALSE, context |-> got.context, text |-> _call_api(env.upstream)]

\* response += "..."
WithEllipsis(text) == Text(text.body \o "...", text.len + 3, ".")

\* lines 1046-1059 of invoke: the reply made presentable
Presentable(text) ==
    LET response == IF text.len < 3 THEN IncompleteApology ELSE text IN
    IF response.len > 20 /\ response.last \notin EndPunctuation
    THEN WithEllipsis(response) ELSE response

Issued(E, r) ==
    [E EXCEPT !.generation_requests = @ + r.generations,
              !.embedding_requests = @ + r.embeddings]

\* what a call leaves behind: the engine, its query cache, and the outcome
Outcome(E, C, kind, value) == [engine |-> E, cache |-> C, kind |-> kind, value |-> value]

\* invoke without its except clause
invoke_unguarded(E, C, query, env, t) ==
    IF StrLen(query) = 0 THEN Outcome(E, C, "return", PleaseProvide)
    ELSE IF ~E.chain THEN Outcome(E, C, "return", SystemNotReady)
    ELSE LET r == chain_invoke(C, query, env, t) IN
         IF r.raised
         THEN Outcome(Issued(E, r), r.cache, "raise", EmptyText)
         ELSE Outcome(Issued(E, r), r.cache, "return", Presentable(r.text))

\* RAGBot.invoke(query, launguage) at time t
invoke(E, C, query, env, t) ==
    IF StrLen(query) = 0 THEN Outcome(E, C, "return", PleaseProvide)
    ELSE IF ~E.chain THEN Outcome(E, C, "return", SystemNotReady)
    ELSE LET r == chain_invoke(C, query, env, t) IN
         IF r.raised
         THEN \* except Exception: log_error("invoke", e, {...}); the apology
              IF log_error(3, {}) = "logged"
              THEN Outcome(Issued(E, r), r.cache, "return", InternalErrorApology)
              ELSE Outcome(Issued(E, r), r.cache, "raise", EmptyText)
         ELSE Outcome(Issued(E, r), r.cache, "return", Presentable(r.text))

(***************************************************************************)
(* RAGBot.invoke_for_Res.  The structured result is a dictionary with the  *)
(* keys of the declared schema; a key that is not there holds NoKey.  The  *)
(* passages found for the item are menu lines "<name> <size> - Rs <price>",*)
(* no item name being part of another.                                     *)
(***************************************************************************)
NoKey == "<absent>"

\* a JSON value that is no string and not falsy (a number, a list): the parser
\* passes it on as it is
NotText == "<number>"

\* the names of the ResponseSchema list
schemas == {"status", "reason", "food_name", "size", "price", "quantity"}

Dict(status, reason, food_name, size, price, quantity, foodname) ==
    [status |-> status, reason |-> reason, food_name |-> food_name, size |-> size,
     price |-> price, quantity |-> quantity, foodname |-> foodname]

\* {"status": False, "reason": reason}
Refusal(reason) == Dict(FALSE, reason, NoKey, NoKey, None, None, NoKey)

NoDict == Refusal("")

NotAQuestion == Refusal("Please provide a question.")
NotReady == Refusal("System not ready. Please try again.")
InternalErrorRefusal ==
    Refusal("I encountered an error processing your request. Please try again.")

\* the text of a generation that spells a dictionary as fenced JSON
JsonText == Text("[fence]json {...} [fence]", 17, "[backtick]")

MenuLine(name, size, price) == [name |-> name, size |-> size, price |-> price]

\* what happens around the extraction: the dictionary the generated JSON spells,
\* how the embedding request of the verification search ends, the lines it finds
Order(structured, verify_embed, menu) ==
    [structured |-> structured, verify_embed |-> verify_embed, menu |-> menu]

NoOrder == Order(NoDict, "ok", <<>>)

\* the first of the matching lines, 0 when there is none
FirstLine(matching) ==
    IF matching = {} THEN 0 ELSE CHOOSE i \in matching : \A j \in matching : i <= j

\* RAGBot._extract_price_from_menu: the number right after the item name, else
\* after name and size, else the first number after the name; None when the
\* name is not in the text
_extract_price_from_menu(menu_context, foodname, size) ==
    LET Named == {i \in 1..Len(menu_context) : menu_context[i].name = foodname}
        p1 == FirstLine({i \in Named : menu_context[i].size = ""})
        p2 == FirstLine({i \in Named : size # "" /\ menu_context[i].size = size})
        p3 == FirstLine(Named)
    IN  IF p1 # 0 THEN menu_context[p1].price
        ELSE IF p2 # 0 THEN menu_context[p2].price
        ELSE IF p3 # 0 THEN menu_context[p3].price
        ELSE None

\* response.get(key, "") on a text key
GetText(value) == IF value = NoKey THEN "" ELSE value

\* parser_res on the generated text: the dictionary, or OutputParserException
parser_res(text, structured) ==
    IF text = JsonText
    THEN [raised |-> FALSE, response |-> structured]
    ELSE [raised |-> TRUE, response |-> NoDict]

\* STEP 2 of invoke_for_Res: the response after price verification and the
\* embedding requests of the search
verify_price(response, order) ==
    LET foodname == GetText(response.foodname)
        size == GetText(response.size)
        extracted_price == response.price
        verified_price == _extract_price_from_menu(order.menu, foodname, size)
    IN  IF foodname = "" \/ extracted_price = None
        THEN [response |-> response, embeddings |-> 0]
        ELSE IF order.verify_embed # "ok" \/ Len(order.menu) = 0
        THEN [response |-> response, embeddings |-> 1]
        ELSE IF verified_price # None /\ verified_price # extracted_price
        THEN [response |-> [response EXCEPT !.price = verified_price], embeddings |-> 1]
        ELSE [response |-> response, embeddings |-> 1]

\* lines 1114-1115: response.get("foodname", "").strip() and, for a truthy size,
\* response.get("size", "").strip() raise AttributeError on a value without strip
StripRaises(response) == response.foodname = NotText \/ response.size = NotText

\* what a call of invoke_for_Res leaves behind
ResOutcome(E, C, kind, result) == [engine |-> E, cache |-> C, kind |-> kind, result |-> result]

\* the except clause of invoke_for_Res: log_error("invokeforRes", e,
\* client_id = ..., query_length = ...), then the refusal
ResHandler(E, C) ==
    IF log_error(2, {"client_id", "query_length"}) = "logged"
    THEN ResOutcome(E, C, "return", InternalErrorRefusal)
    ELSE ResOutcome(E, C, "raise", NoDict)

\* RAGBot.invoke_for_Res(query) at time t
invoke_for_Res(E, C, query, env, order, t) ==
    IF StrLen(query) = 0 THEN ResOutcome(E, C, "return", NotAQuestion)
    ELSE IF ~E.chain THEN ResOutcome(E, C, "return", NotReady)
    ELSE LET r == chain_invoke(C, query, env, t)
             parsed == parser_res(r.text, order.structured)
             checked == verify_price(parsed.response, order)
             E1 == Issued(E, r)
             E2 == [E1 EXCEPT !.embedding_requests = @ + checked.embeddings]
         IN  IF r.raised \/ parsed.raised THEN ResHandler(E1, r.cache)
             ELSE IF ~parsed.response.status
             THEN ResOutcome(E1, r.cache, "return", parsed.response)
             ELSE IF StripRaises(parsed.response) THEN ResHandler(E1, r.cache)
             ELSE ResOutcome(E2, r.cache, "return", checked.response)

(***************************************************************************)
(* The engine at work: calls of _call_api and invoke, one at a time.       *)
(***************************************************************************)
\* texts the generation service may send: too short to be a reply, a full
\* sentence, a long text that stops without punctuation, a short one that does
ShortText == Text("ok", 2, "k")
SentenceText == Text("A masala dosa costs 90 rupees.", 30, ".")
OpenEndedText == Text("A masala dosa costs 90 rupees and a", 35, "a")
BriefText == Text("90 rupees", 9, "s")

ModelTexts == {ShortText, SentenceText, OpenEndedText, BriefText}

Failure(outcome) == Upstream(outcome, 0, "none", FALSE, "none", "none", EmptyText)
HttpError(status) == Upstream("response", status, "none", FALSE, "none", "none", EmptyText)

\* everything a generation request can come to
Upstreams ==
    { Failure(o) : o \in {"timeout", "connection", "request_error"} }
    \cup { HttpError(st) : st \in {400, 404, 429, 500} }
    \cup { Upstream("response", 200, j, FALSE, "none", "none", EmptyText) : j \in {"invalid", "list"} }
    \cup { Upstream("response", 200, "object", FALSE, "none", "none", EmptyText),
           Upstream("response", 200, "object", TRUE, "SAFETY", "none", EmptyText),
           Upstream("response", 200, "object", TRUE, "STOP", "none", EmptyText),
           Upstream("response", 200, "object", TRUE, "STOP", "unreadable", EmptyText),
           Upstream("response", 200, "object", TRUE, "STOP", "list", EmptyText),
           Upstream("response", 200, "object", TRUE, "MAX_TOKENS", "list", OpenEndedText) }
    \cup { Answer(text) : text \in ModelTexts }

Env(embed, docs, prompt_raises, upstream) ==
    [embed |-> embed, docs |-> docs, prompt_raises |-> prompt_raises, upstream |-> upstream]

Passages == {"", "Masala Dosa - Rs 90"}

\* what the generation requests of invoke come to in the model
InvokeUpstreams ==
    {Failure("timeout"), HttpError(500)} \cup { Answer(text) : text \in ModelTexts }

InvokeEnvs ==
    { Env(e, d, p, u) : e \in {"ok", "timeout", "error"}, d \in Passages,
                        p \in BOOLEAN, u \in InvokeUpstreams }

Questions == {Str(<<>>, 0), Str(<<" ">>, 0), Str(<<"a">>, 0)}

\* the engine may issue more requests
MayCall ==
    /\ engine.generation_requests < MaxEngineCalls
    /\ engine.embedding_requests < MaxEngineCalls

NoEnv == Env("ok", "", FALSE, Failure("none"))

NoReply ==
    [op |-> "none", query |-> Str(<<>>, 0), env |-> NoEnv, order |-> NoOrder,
     kind |-> "return", value |-> EmptyText, result |-> NoDict,
     generations |-> 0, embeddings |-> 0]

EngineIdle == engine = RAGBot(FALSE) /\ reply = NoReply

EngineInit ==
    /\ engine = RAGBot(TRUE)
    /\ engine_cache = RAGCache(default_max_query_cache)
    /\ query_ret = NoQuery
    /\ reply = NoReply

NotEngine == <<rlVars, tbVars, swVars, cmVars, query_ret, whVars, rcVars, hsVars>>

\* GeminiRESTChat._call_api(prompt): one generation request
CallApi(upstream) ==
    /\ MayCall
    /\ engine' = [engine EXCEPT !.generation_requests = @ + 1]
    /\ reply' = [NoReply EXCEPT !.op = "_call_api", !.env.upstream = upstream,
                                !.value = _call_api(upstream), !.generations = 1]
    /\ UNCHANGED <<now, engine_cache, NotEngine>>

\* RAGBot.invoke(query, launguage)
Invoke(query, env) ==
    /\ MayCall
    /\ \E r \in {invoke(engine, engine_cache, query, env, now)} :
          /\ engine' = r.engine
          /\ engine_cache' = r.cache
          /\ reply' = [op |-> "invoke", query |-> query, env |-> env, order |-> NoOrder,
                       kind |-> r.kind, value |-> r.value, result |-> NoDict,
                       generations |-> r.engine.generation_requests - engine.generation_requests,
                       embeddings |-> r.engine.embedding_requests - engine.embedding_requests]
    /\ UNCHANGED <<now, NotEngine>>

\* what the model may extract from an order
Extractions ==
    { Dict(TRUE, "", "masala dosa", "", 120, 1, k) : k \in {NoKey, "masala dosa"} }
    \cup { Dict(TRUE, "", "garlic bread", "", p, 2, k) : p \in {80, 160}, k \in {NoKey, "garlic bread"} }
    \cup { Dict(FALSE, "not on the menu", "", "", None, None, NoKey),
           Dict(TRUE, "", "masala dosa", NotText, 120, 1, NoKey) }

Menu == <<MenuLine("masala dosa", "", 90), MenuLine("garlic bread", "", 80)>>

\* an extraction and its verification search
Orders == { Order(d, e, m) : d \in Extractions, e \in {"ok", "error"}, m \in {<<>>, Menu} }

\* a call that never gets a dictionary, and a call that gets one
ResCases ==
    { <<Env(e, "Masala Dosa - Rs 90", p, u), NoOrder>> :
          e \in {"ok", "error"}, p \in BOOLEAN, u \in {Failure("timeout"), Answer(SentenceText)} }
    \cup { <<Env("ok", "Masala Dosa - Rs 90", FALSE, Answer(JsonText)), o>> : o \in Orders }

\* RAGBot.invoke_for_Res(query)
InvokeForRes(query, env, order) ==
    /\ MayCall
    /\ \E r \in {invoke_for_Res(engine, engine_cache, query, env, order, now)} :
          /\ engine' = r.engine
          /\ engine_cache' = r.cache
          /\ reply' = [op |-> "invoke_for_Res", query |-> query, env |-> env, order |-> order,
                       kind |-> r.kind, value |-> EmptyText, result |-> r.result,
                       generations |-> r.engine.generation_requests - engine.generation_requests,
                       embeddings |-> r.engine.embedding_requests - engine.embedding_requests]
    /\ UNCHANGED <<now, NotEngine>>

EngineNext ==
    \/ \E u \in Upstreams : CallApi(u)
    \/ \E q \in Questions, env \in InvokeEnvs : Invoke(q, env)
    \/ \E q \in Questions, c \in ResCases : InvokeForRes(q, c[1], c[2])

(***************************************************************************)
(* Messages served through the engine cache.  A call record carries the    *)
(* sender of the message; an engine remembers the sender_number it was     *)
(* constructed with (RAGBot.__init__, self.sender_number) and invoke looks *)
(* the user's name and goals up under that number.  invalidate(client_id)  *)
(* may run between any two steps; stale marks what was read from the       *)
(* client's data before an invalidation, overlapped the calls that were in *)
(* flight during one.                                                      *)
(***************************************************************************)
Senders == {"sender-1", "sender-2"}

ServedIdle ==
    [pc |-> "idle", client_id |-> "", current_time |-> 0, rag |-> NoBot, hit |-> FALSE,
     sender_number |-> "", user_context |-> "", overlapped |-> FALSE, stale |-> FALSE]

ServeInit ==
    /\ rag_cache \in {RAGCacheManager(n) : n \in 1..MaxCacheSize}
    /\ calls = [t \in Tasks |-> ServedIdle]
    /\ bots = <<>>

\* handle_message calls get_or_create_rag(client_id, phone_id, sender_number)
\* (app.py:1155)
ServeBegin(t, client_id, sender_number) ==
    /\ calls[t].pc = "idle"
    /\ rag_cache.hits + rag_cache.misses < MaxLookups
    /\ calls' = [calls EXCEPT ![t] = [ServedIdle EXCEPT !.pc = "lookup",
                                                        !.client_id = client_id,
                                                        !.current_time = now,
                                                        !.sender_number = sender_number]]
    /\ UNCHANGED <<now, rag_cache, bots, NotManager>>

\* rag = RAGBot(client_id, document_text, sender_number)  (app.py:160, Rag.py:611)
ServeBuild(t) ==
    /\ calls[t].pc = "build"
    /\ bots' = Append(bots, [client_id |-> calls[t].client_id,
                             created |-> calls[t].current_time,
                             sender_number |-> calls[t].sender_number,
                             stale |-> calls[t].stale])
    /\ calls' = [calls EXCEPT ![t].pc = "insert", ![t].rag = Len(bots) + 1]
    /\ UNCHANGED <<now, rag_cache, NotManager>>

\* rag.invoke(message): extract_name_from_FB and extract_goals_from_FB are asked
\* for mobile_number = self.sender_number  (Rag.py:1024, 1030)
ServeInvoke(t) ==
    /\ calls[t].pc = "returned"
    /\ calls[t].rag # NoBot
    /\ calls' = [calls EXCEPT ![t].pc = "answered",
                              ![t].user_context = bots[calls[t].rag].sender_number]
    /\ UNCHANGED <<now, rag_cache, bots, NotManager>>

\* the handler is done: with its reply, or without an engine
ServeFinish(t) ==
    /\ \/ calls[t].pc = "answered"
       \/ calls[t].pc = "returned" /\ calls[t].rag = NoBot
    /\ calls' = [calls EXCEPT ![t] = ServedIdle]
    /\ UNCHANGED <<now, rag_cache, bots, NotManager>>

\* RAGCacheManager.invalidate(client_id), under the lock
invalidate(M, client_id) ==
    [M EXCEPT !.cache = IF KeyIndex(@, client_id) = 0 THEN @
                        ELSE DelIndex(@, KeyIndex(@, client_id))]

\* POST /cache/clear/{client_id}  (app.py:1767-1771)
Invalidate(client_id) ==
    /\ \E t \in Tasks : calls[t].pc # "idle"
    /\ rag_cache' = invalidate(rag_cache, client_id)
    /\ calls' = [t \in Tasks |->
                    IF calls[t].client_id = client_id /\ calls[t].pc # "idle"
                    THEN [calls[t] EXCEPT !.overlapped = TRUE,
                                          !.stale = @ \/ calls[t].pc \in {"build", "insert"}]
                    ELSE calls[t]]
    /\ bots' = [i \in 1..Len(bots) |->
                   IF bots[i].client_id = client_id
                   THEN [bots[i] EXCEPT !.stale = TRUE] ELSE bots[i]]
    /\ UNCHANGED <<now, NotManager>>

ServeNext ==
    \/ \E t \in Tasks, c \in Clients, s \in Senders : ServeBegin(t, c, s)
    \/ \E t \in Tasks : Lookup(t)
    \/ \E t \in Tasks, found \in BOOLEAN : Fetch(t, found)
    \/ \E t \in Tasks : ServeBuild(t)
    \/ \E t \in Tasks : BuildFails(t)
    \/ \E t \in Tasks : Insert(t)
    \/ \E t \in Tasks : ServeInvoke(t)
    \/ \E t \in Tasks : ServeFinish(t)
    \/ \E c \in Clients : Invalidate(c)

(***************************************************************************)
(* get_context over time: lookups of a few questions, at once, at the age  *)
(* limit of the query cache and just beyond it, in caches small enough to  *)
(* overflow.  query_ret.retrieved remembers, for every question hash, the  *)
(* last retrieval that was stored: when, what, and how many contexts have  *)
(* been stored since.                                                      *)
(***************************************************************************)
ContextQuestions == {Str(<<"a">>, 0), Str(<<" ", "A">>, 0), Str(<<"b">>, 0)}

ContextEnvs == { Env(e, d, FALSE, Failure("none")) : e \in {"ok", "error"}, d \in Passages }

ContextDelays == {0, max_age_seconds, max_age_seconds + 1}

ContextInit ==
    /\ engine = RAGBot(TRUE)
    /\ engine_cache \in {RAGCache(n) : n \in 1..MaxQueryCache}
    /\ query_ret = NoQuery
    /\ reply = NoReply

\* the record of retrievals after a call that stored a context for key
Retrieved(old, key, context, t) ==
    Put([k \in DOMAIN old |-> [old[k] EXCEPT !.later = @ + 1]], key,
        [time |-> t, context |-> context, later |-> 0])

\* get_context({"question": question}) at time now + delay
GetContext(question, env, delay) ==
    /\ engine.embedding_requests < MaxRetrievals
    /\ now + delay <= max_age_seconds + MaxQueryTicks
    /\ LET t == now + delay
           key == query_hash(sanitize_query(question))
       IN  \E r \in {get_context(engine_cache, question, env, t)} :
             /\ now' = t
             /\ engine' = [engine EXCEPT !.embedding_requests = @ + r.embeddings]
             /\ engine_cache' = r.cache
             /\ reply' = [NoReply EXCEPT !.op = "get_context", !.query = question,
                                         !.env = env, !.embeddings = r.embeddings]
             /\ query_ret' =
                    [op |-> "get_context", query |-> question, time |-> t,
                     found |-> r.embeddings = 0 /\ StrLen(sanitize_query(question)) > 0,
                     data |-> [key |-> key, context |-> r.context, timestamp |-> t],
                     before |-> <<>>,
                     \* the retriever was asked and came back with passages
                     retrieved |-> IF r.embeddings = 1 /\ env.embed = "ok" /\ env.docs # ""
                                   THEN Retrieved(query_ret.retrieved, key, r.context, t)
                                   ELSE query_ret.retrieved]
    /\ UNCHANGED <<rlVars, tbVars, swVars, cmVars, whVars, rcVars, hsVars>>

ContextNext ==
    \E q \in ContextQuestions, env \in ContextEnvs, d \in ContextDelays : GetContext(q, env, d)

(***************************************************************************)
(* handle_message of the webhook.  hook holds one record per inbound       *)
(* message: where its handler stands, the calls it has made in order, and  *)
(* the status it answered with.  The handlers of different messages        *)
(* interleave.  What the engine cache, the client record and the rate      *)
(* limiter answer is an input of the step.                                 *)
(***************************************************************************)
Handler(pc, events, status) == [pc |-> pc, events |-> events, status |-> status]

HookIdle == hook = <<>>

NotHook == <<rlVars, tbVars, swVars, cmVars, qcVars, egVars, rcVars, hsVars>>

\* how far handler m got
At(m, pc) == m \in DOMAIN hook /\ hook[m].pc = pc

Advance(m, pc, calls_made, status) ==
    hook' = [hook EXCEPT ![m] = Handler(pc, @.events \o calls_made, status)]

\* lines 1060-1152: a message arrives and passes or fails the checks on the
\* payload, the phone id, the client id and the sender
Receive(verdict) ==
    /\ Len(hook) < MaxMessages
    /\ hook' = Append(hook, IF verdict = "ok"
                            THEN Handler("get_or_create_rag", <<>>, "")
                            ELSE Handler("done", <<>>, verdict))
    /\ UNCHANGED <<now, NotHook>>

\* lines 1154-1178: rag_cache.get_or_create_rag(client_id, phone_id, ...), which
\* finds the engine, builds it, or gives (None, None)
GetOrCreateRag(m, found) ==
    /\ At(m, "get_or_create_rag")
    /\ \/ /\ found = "hit"
          /\ Advance(m, "credentials", <<"get_or_create_rag">>, "")
       \/ /\ found = "miss"
          /\ Advance(m, "credentials", <<"get_or_create_rag", "RAGBot">>, "")
       \/ /\ found = "none"
          /\ \E status \in {"Fallback response sent", "Failed to initialize RAG"} :
                Advance(m, "done", <<"get_or_create_rag">>, status)
    /\ UNCHANGED <<now, NotHook>>

\* lines 1182-1251: the access token and the phone id of the client record
Credentials(m, valid) ==
    /\ At(m, "credentials")
    /\ IF valid THEN Advance(m, "check_rate_limit", <<>>, "")
                ELSE Advance(m, "done", <<>>, "error")
    /\ UNCHANGED <<now, NotHook>>

\* lines 1253-1278: rate_limiter.check_rate_limit(sender_number, client_id,
\* incoming_message); a rejection is told to the sender and ends the handler,
\* an exception ends it in the handler's except clause
CheckRateLimit(m, verdict) ==
    /\ At(m, "check_rate_limit")
    /\ \/ /\ verdict = "allowed"
          /\ Advance(m, "reply", <<"check_rate_limit", "allowed">>, "")
       \/ /\ verdict = "rejected"
          /\ Advance(m, "done", <<"check_rate_limit", "rejected", "send_whatsapp_message">>,
                     "rate_limited")
       \/ /\ verdict = "raised"
          /\ Advance(m, "done", <<"check_rate_limit">>, "error")
    /\ UNCHANGED <<now, NotHook>>

\* lines 1280 on: the plan's handler answers with the engine, the reply is sent
Reply(m) ==
    /\ At(m, "reply")
    /\ Advance(m, "done", <<"invoke", "send_whatsapp_message">>, "success")
    /\ UNCHANGED <<now, NotHook>>

HookNext ==
    \/ \E v \in {"ok", "Empty message ignored", "Invalid phone ID", "ignored"} : Receive(v)
    \/ \E m \in 1..MaxMessages, f \in {"hit", "miss", "none"} : GetOrCreateRag(m, f)
    \/ \E m \in 1..MaxMessages, v \in BOOLEAN : Credentials(m, v)
    \/ \E m \in 1..MaxMessages, v \in {"allowed", "rejected", "raised"} : CheckRateLimit(m, v)
    \/ \E m \in 1..MaxMessages : Reply(m)

(***************************************************************************)
(* RAGCache: the conversation history.  max_history_size, 50 by default,   *)
(* is a parameter of the constructor.                                      *)
(***************************************************************************)
HistoryCache(max_history_size) ==
    [conversation_history |-> EmptyDict, max_history_size |-> max_history_size]

\* seq[-n:]
LastN(seq, n) ==
    IF n = 0 \/ n >= Len(seq) THEN seq ELSE SubSeq(seq, Len(seq) - n + 1, Len(seq))

Turn(role, content, timestamp) == [role |-> role, content |-> content, timestamp |-> timestamp]

\* an add_to_history that lets the newest turn go on overflow
add_to_history_keep_first(H, client_id, role, content, t) ==
    IF StrLen(Strip(content)) = 0 THEN H
    ELSE LET old == IF client_id \in DOMAIN H.conversation_history
                    THEN H.conversation_history[client_id] ELSE <<>>
             all == Append(old, Turn(role, Strip(content), t))
         IN  [H EXCEPT !.conversation_history =
                 Put(@, client_id, SubSeq(all, 1, Min(Len(all), H.max_history_size)))]

\* RAGCache.add_to_history(client_id, role, content) at time t
add_to_history(H, client_id, role, content, t) ==
    IF StrLen(Strip(content)) = 0 THEN H
    ELSE LET old == IF client_id \in DOMAIN H.conversation_history
                    THEN H.conversation_history[client_id] ELSE <<>>
             all == Append(old, Turn(role, Strip(content), t))
         IN  [H EXCEPT !.conversation_history =
                 Put(@, client_id, LastN(all, H.max_history_size))]

\* RAGCache.get_history(client_id)
get_history(H, client_id) ==
    IF client_id \in DOMAIN H.conversation_history
    THEN H.conversation_history[client_id] ELSE <<>>

HistoryIdle == history = HistoryCache(0) /\ turns = <<>>

HistoryInit ==
    /\ history \in { HistoryCache(n) : n \in 1..MaxHistory }
    /\ turns = <<>>

HistoryClients == {"c1", "c2"}
Roles == {"user", "ai"}
Contents == {Str(<<"a">>, 0), Str(<<" ", "b", " ">>, 0), Str(<<" ">>, 0)}

NotHistory == <<rlVars, tbVars, swVars, cmVars, qcVars, egVars, whVars, rcVars>>

\* RAGCache.add_to_history, delay seconds after the call before
AddToHistory(client_id, role, content, delay) ==
    /\ Len(turns) < MaxTurns
    /\ now' = now + delay
    /\ history' = add_to_history(history, client_id, role, content, now')
    /\ turns' = Append(turns, [client_id |-> client_id, role |-> role,
                               content |-> content, time |-> now'])
    /\ UNCHANGED NotHistory

HistoryNext ==
    \E c \in HistoryClients, r \in Roles, m \in Contents, d \in {0, 1} : AddToHistory(c, r, m, d)

(***************************************************************************)
(* check_rate_limit called by several threads for one identity, statement  *)
(* by statement.  race holds the TokenBucket and counter objects created   *)
(* so far, which of them the limiter's dictionaries refer to for the       *)
(* identity (0: the key is not there), and each thread's position.  The    *)
(* calls come at one instant, carry different short messages (the          *)
(* duplicate and length stages let them pass), and the identity is not     *)
(* blocked; the window limits are the defaults, far above the number of    *)
(* threads.  The four stores of lines 121-124 are taken as one step.       *)
(***************************************************************************)
Thread(pc, passed, result) == [pc |-> pc, passed |-> passed, result |-> result]

\* RateLimitConfig.request_per_minitue as it is by default: the refill of a
\* bucket in sixtieths of a token per second
default_request_per_minitue == 300

\* the counters made for an identity at lines 121-124
Trackers ==
    [minitue |-> SlidingWindowCounter(MinuteWindow), hour |-> SlidingWindowCounter(HourWindow),
     day |-> SlidingWindowCounter(DayWindow), burst |-> <<>>]

RaceIdle == race = <<>>

RaceInit ==
    \E b \in 1..MaxThreads :
        race = [brust_size |-> b, buckets |-> <<>>, token_bucket |-> 0,
                trackers |-> <<>>, minitue_counters |-> 0,
                threads |-> [t \in 1..MaxThreads |-> Thread("idle", FALSE, "none")]]

NotRace == <<rlVars, tbVars, swVars, cmVars, qcVars, egVars, whVars, hsVars>>

Threads == 1..MaxThreads

InCall(t, pc) == race.threads[t].pc = pc

\* lines 101-115: the call starts, the identity is not blocked
ThreadEnter(t) ==
    /\ InCall(t, "idle")
    /\ race' = [race EXCEPT !.threads[t].pc = "test_bucket"]
    /\ UNCHANGED <<now, NotRace>>

\* line 117: if user_id not in self.token_bucket
ThreadTestBucket(t) ==
    /\ InCall(t, "test_bucket")
    /\ race' = [race EXCEPT !.threads[t].pc =
                    IF race.token_bucket = 0 THEN "make_bucket" ELSE "test_counters"]
    /\ UNCHANGED <<now, NotRace>>

\* line 118: self.token_bucket[user_id] = TokenBucket(...)
ThreadMakeBucket(t) ==
    /\ InCall(t, "make_bucket")
    /\ race' = [race EXCEPT
                    !.buckets = Append(@, TokenBucket(race.brust_size, default_request_per_minitue, now)),
                    !.token_bucket = Len(race.buckets) + 1,
                    !.threads[t].pc = "test_counters"]
    /\ UNCHANGED <<now, NotRace>>

\* line 120: if user_id not in self.minitue_counters
ThreadTestCounters(t) ==
    /\ InCall(t, "test_counters")
    /\ race' = [race EXCEPT !.threads[t].pc =
                    IF race.minitue_counters = 0 THEN "make_counters" ELSE "burst"]
    /\ UNCHANGED <<now, NotRace>>

\* lines 121-124: the counters and the burst queue of the identity
ThreadMakeCounters(t) ==
    /\ InCall(t, "make_counters")
    /\ race' = [race EXCEPT
                    !.trackers = Append(@, Trackers),
                    !.minitue_counters = Len(race.trackers) + 1,
                    !.threads[t].pc = "burst"]
    /\ UNCHANGED <<now, NotRace>>

\* lines 126-149: the message is stored as the last one, the burst queue gets
\* the event; more than brust_size events end the call in the KeyError of line 148
ThreadBurst(t) ==
    /\ InCall(t, "burst")
    /\ LET k == race.minitue_counters
           queue == PopWhileBelow(Append(race.trackers[k].burst, now), now - brust_window)
       IN  race' = [race EXCEPT
                       !.trackers[k].burst = queue,
                       !.threads[t] = IF Len(queue) > race.brust_size
                                      THEN Thread("done", FALSE, "KeyError")
                                      ELSE Thread("consume", FALSE, "none")]
    /\ UNCHANGED <<now, NotRace>>

\* lines 151-153: self.token_bucket[user_id].consume()
ThreadConsume(t) ==
    /\ InCall(t, "consume")
    /\ LET k == race.token_bucket
           r == consume(race.buckets[k], 1, now)
       IN  race' = [race EXCEPT
                       !.buckets[k] = r.bucket,
                       !.threads[t] = IF r.ok THEN Thread("add_request", TRUE, "none")
                                             ELSE Thread("done", FALSE, "rejected")]
    /\ UNCHANGED <<now, NotRace>>

\* lines 155-179: the three counters get the event; no window limit is reached
ThreadAddRequest(t) ==
    /\ InCall(t, "add_request")
    /\ LET k == race.minitue_counters IN
       race' = [race EXCEPT
                   !.trackers[k].minitue = add_request(@, now),
                   !.trackers[k].hour = add_request(@, now),
                   !.trackers[k].day = add_request(@, now),
                   !.threads[t] = Thread("done", TRUE, "allowed")]
    /\ UNCHANGED <<now, NotRace>>

RaceNext ==
    \E t \in Threads :
        \/ ThreadEnter(t)
        \/ ThreadTestBucket(t)
        \/ ThreadMakeBucket(t)
        \/ ThreadTestCounters(t)
        \/ ThreadMakeCounters(t)
        \/ ThreadBurst(t)
        \/ ThreadConsume(t)
        \/ ThreadAddRequest(t)
(***************************************************************************)
(* check_rate_limit of one identity, statement by statement, while an      *)
(* administrative call (unblock_user or reset_user_limits) and the sweep   *)
(* of another identity's check run.  race says which of the identity's     *)
(* entries are in the limiter's dictionaries (a block entry here is an     *)
(* expired one), whether its day counter holds an event, and where each    *)
(* thread is.  The limits are far above the number of threads; the stores  *)
(* of lines 121-124 are taken as one step, and so are the pops of lines    *)
(* 255-259 and of lines 208-212.                                           *)
(***************************************************************************)
\* what is stored for the identity when the threads start: nothing, trackers with
\* events and a last message, or these and an expired block
StoredAtStart ==
    { [blocked_users |-> FALSE, token_bucket |-> FALSE, counters |-> FALSE,
       last_messages |-> FALSE, counted |-> FALSE],
      [blocked_users |-> FALSE, token_bucket |-> TRUE, counters |-> TRUE,
       last_messages |-> TRUE, counted |-> TRUE],
      [blocked_users |-> TRUE, token_bucket |-> TRUE, counters |-> TRUE,
       last_messages |-> TRUE, counted |-> TRUE] }

Caller(pc, result) == [pc |-> pc, result |-> result]

RemovalInit ==
    \E s \in StoredAtStart :
        race = [has |-> s,
                threads |-> [t \in 1..MaxThreads |-> Caller("idle", "none")],
                admin |-> Caller("idle", "none"),
                sweep |-> [pc |-> "idle", result |-> "none",
                           expired_blocks |-> FALSE, inactive_users |-> FALSE]]

InCheck(t, pc) == race.threads[t].pc = pc

\* the thread goes on to pc, or ends in a KeyError when the key it subscripts
\* with is not in the dictionary
Subscript(t, present, pc) ==
    [race EXCEPT !.threads[t] = IF present THEN Caller(pc, "none")
                                ELSE Caller("done", "KeyError")]

\* lines 101-106
CheckEnter(t) ==
    /\ InCheck(t, "idle")
    /\ race' = [race EXCEPT !.threads[t].pc = "test_blocked"]
    /\ UNCHANGED <<now, NotRace>>

\* line 108: if user_id in self.blocked_users
CheckTestBlocked(t) ==
    /\ InCheck(t, "test_blocked")
    /\ race' = [race EXCEPT !.threads[t].pc =
                    IF race.has.blocked_users THEN "read_blocked" ELSE "test_bucket"]
    /\ UNCHANGED <<now, NotRace>>

\* lines 109-110: unblock_time = self.blocked_users[user_id]; the block has expired
CheckReadBlocked(t) ==
    /\ InCheck(t, "read_blocked")
    /\ race' = Subscript(t, race.has.blocked_users, "del_blocked")
    /\ UNCHANGED <<now, NotRace>>

\* line 114: del self.blocked_users[user_id]
CheckDelBlocked(t) ==
    /\ InCheck(t, "del_blocked")
    /\ race' = [Subscript(t, race.has.blocked_users, "test_bucket")
                    EXCEPT !.has.blocked_users = FALSE]
    /\ UNCHANGED <<now, NotRace>>

\* lines 117-118
CheckBucket(t) ==
    /\ InCheck(t, "test_bucket")
    /\ race' = [race EXCEPT !.has.token_bucket = TRUE, !.threads[t].pc = "test_counters"]
    /\ UNCHANGED <<now, NotRace>>

\* lines 120-124
CheckCounters(t) ==
    /\ InCheck(t, "test_counters")
    /\ race' = [race EXCEPT
                    !.has.counters = TRUE,
                    !.has.counted = IF race.has.counters THEN @ ELSE FALSE,
                    !.threads[t].pc = "test_last"]
    /\ UNCHANGED <<now, NotRace>>

\* line 127: if user_id in self.last_messages
CheckTestLast(t) ==
    /\ InCheck(t, "test_last")
    /\ race' = [race EXCEPT !.threads[t].pc =
                    IF race.has.last_messages THEN "read_last" ELSE "store_last"]
    /\ UNCHANGED <<now, NotRace>>

\* line 128: last_hash, last_time = self.last_messages[user_id]; not a duplicate
CheckReadLast(t) ==
    /\ InCheck(t, "read_last")
    /\ race' = Subscript(t, race.has.last_messages, "store_last")
    /\ UNCHANGED <<now, NotRace>>

\* line 137: self.last_messages[user_id] = (message_hash, current_time)
CheckStoreLast(t) ==
    /\ InCheck(t, "store_last")
    /\ race' = [race EXCEPT !.has.last_messages = TRUE, !.threads[t].pc = "burst"]
    /\ UNCHANGED <<now, NotRace>>

\* lines 141-149: burst_tracker = self.burst_tracker[user_id], and the queue is short
CheckBurst(t) ==
    /\ InCheck(t, "burst")
    /\ race' = Subscript(t, race.has.counters, "consume")
    /\ UNCHANGED <<now, NotRace>>

\* line 151: self.token_bucket[user_id].consume(), and the bucket has a token
CheckConsume(t) ==
    /\ InCheck(t, "consume")
    /\ race' = Subscript(t, race.has.token_bucket, "add_request")
    /\ UNCHANGED <<now, NotRace>>

\* lines 155-179: self.minitue_counters[user_id].add_request(current_time) and the
\* statements after it; no threshold is reached, no sweep is due for this thread
CheckAddRequest(t) ==
    /\ InCheck(t, "add_request")
    /\ race' = [race EXCEPT
                    !.has.counted = IF race.has.counters THEN TRUE ELSE @,
                    !.threads[t] = IF race.has.counters THEN Caller("done", "allowed")
                                   ELSE Caller("done", "KeyError")]
    /\ UNCHANGED <<now, NotRace>>

\* unblock_user, line 247: if user_id in self.blocked_users
UnblockTest ==
    /\ race.admin.pc = "idle"
    /\ race' = [race EXCEPT !.admin = IF race.has.blocked_users
                                      THEN Caller("unblock_del", "none")
                                      ELSE Caller("done", "False")]
    /\ UNCHANGED <<now, NotRace>>

\* unblock_user, lines 248-249: del self.blocked_users[user_id]; return True
UnblockDel ==
    /\ race.admin.pc = "unblock_del"
    /\ race' = [race EXCEPT !.has.blocked_users = FALSE,
                            !.admin = IF race.has.blocked_users
                                      THEN Caller("done", "True")
                                      ELSE Caller("done", "KeyError")]
    /\ UNCHANGED <<now, NotRace>>

\* reset_user_limits, lines 255-259: the trackers are popped
ResetTrackers ==
    /\ race.admin.pc = "idle"
    /\ race' = [race EXCEPT !.has.token_bucket = FALSE, !.has.counters = FALSE,
                            !.has.counted = FALSE,
                            !.admin = Caller("reset_rest", "none")]
    /\ UNCHANGED <<now, NotRace>>

\* reset_user_limits, lines 260-261: the last message and the block are popped
ResetRest ==
    /\ race.admin.pc = "reset_rest"
    /\ race' = [race EXCEPT !.has.last_messages = FALSE, !.has.blocked_users = FALSE,
                            !.admin = Caller("done", "None")]
    /\ UNCHANGED <<now, NotRace>>

\* _cleanup_old_data in the check of another identity, lines 182-195: the list of
\* expired blocks
SweepListBlocks ==
    /\ race.sweep.pc = "idle"
    /\ race' = [race EXCEPT !.sweep.pc = "del_blocks",
                            !.sweep.expired_blocks = race.has.blocked_users]
    /\ UNCHANGED <<now, NotRace>>

\* lines 197-198: del self.blocked_users[user_id] for the blocks listed
SweepDelBlocks ==
    /\ race.sweep.pc = "del_blocks"
    /\ race' = IF race.sweep.expired_blocks /\ ~race.has.blocked_users
               THEN [race EXCEPT !.sweep.pc = "done", !.sweep.result = "KeyError"]
               ELSE [race EXCEPT !.has.blocked_users = FALSE, !.sweep.pc = "list_inactive"]
    /\ UNCHANGED <<now, NotRace>>

\* lines 200-206: the identities whose day counter holds no event
SweepListInactive ==
    /\ race.sweep.pc = "list_inactive"
    /\ race' = [race EXCEPT !.sweep.pc = "pop_inactive",
                            !.sweep.inactive_users = race.has.counters /\ ~race.has.counted]
    /\ UNCHANGED <<now, NotRace>>

\* lines 208-215: their trackers are popped
SweepPopInactive ==
    /\ race.sweep.pc = "pop_inactive"
    /\ race' = IF race.sweep.inactive_users
               THEN [race EXCEPT !.has.token_bucket = FALSE, !.has.counters = FALSE,
                                 !.has.counted = FALSE,
                                 !.sweep.pc = "done", !.sweep.result = "AttributeError"]
               ELSE [race EXCEPT !.sweep.pc = "done", !.sweep.result = "swept"]
    /\ UNCHANGED <<now, NotRace>>

RemovalNext ==
    \/ \E t \in 1..MaxThreads :
        \/ CheckEnter(t)
        \/ CheckTestBlocked(t)
        \/ CheckReadBlocked(t)
        \/ CheckDelBlocked(t)
        \/ CheckBucket(t)
        \/ CheckCounters(t)
        \/ CheckTestLast(t)
        \/ CheckReadLast(t)
        \/ CheckStoreLast(t)
        \/ CheckBurst(t)
        \/ CheckConsume(t)
        \/ CheckAddRequest(t)
    \/ UnblockTest
    \/ UnblockDel
    \/ ResetTrackers
    \/ ResetRest
    \/ SweepListBlocks
    \/ SweepDelBlocks
    \/ SweepListInactive
    \/ SweepPopInactive

OthersIdle == EngineIdle /\ HookIdle /\ RaceIdle /\ HistoryIdle

(***************************************************************************)
(* The specifications.                                                     *)
(***************************************************************************)
\* the rate limiter, one identity
Init == RLInit(Configs) /\ BucketIdle /\ CounterIdle /\ ManagerIdle /\ QueryIdle /\ OthersIdle
Next == RLNext
Spec == Init /\ [][Next]_vars

\* the rate limiter, two identities, long silences
InitSweep == RLInit(SweepConfigs) /\ BucketIdle /\ CounterIdle /\ ManagerIdle /\ QueryIdle /\ OthersIdle
SpecSweep == InitSweep /\ [][SweepNext]_vars

\* one token bucket
InitBucket == now = 0 /\ BucketInit /\ RLIdle /\ CounterIdle /\ ManagerIdle /\ QueryIdle /\ OthersIdle
SpecBucket == InitBucket /\ [][BucketNext]_vars

\* one sliding window counter
InitWindow == now = 0 /\ CounterInit /\ RLIdle /\ BucketIdle /\ ManagerIdle /\ QueryIdle /\ OthersIdle
SpecWindow == InitWindow /\ [][CounterNext]_vars

\* the engine cache and its concurrent callers
InitManager == now = 0 /\ ManagerInit /\ RLIdle /\ BucketIdle /\ CounterIdle /\ QueryIdle /\ OthersIdle
SpecManager == InitManager /\ [][ManagerNext]_vars

\* the query cache of one engine
InitQuery == now = 0 /\ QueryInit /\ RLIdle /\ BucketIdle /\ CounterIdle /\ ManagerIdle /\ OthersIdle
SpecQuery == InitQuery /\ [][QueryNext]_vars

\* one engine answering
InitEngine ==
    /\ now = 0 /\ EngineInit /\ RLIdle /\ BucketIdle /\ CounterIdle /\ ManagerIdle
    /\ HookIdle /\ RaceIdle /\ HistoryIdle
SpecEngine == InitEngine /\ [][EngineNext]_vars

\* the webhook handling inbound messages
InitHook ==
    /\ now = 0 /\ RLIdle /\ BucketIdle /\ CounterIdle /\ ManagerIdle /\ QueryIdle
    /\ EngineIdle /\ HookIdle /\ RaceIdle /\ HistoryIdle
SpecHook == InitHook /\ [][HookNext]_vars

\* threads checking one identity at once
InitRace ==
    /\ now = 0 /\ RLIdle /\ BucketIdle /\ CounterIdle /\ ManagerIdle /\ QueryIdle
    /\ EngineIdle /\ HookIdle /\ RaceInit /\ HistoryIdle
SpecRace == InitRace /\ [][RaceNext]_vars

\* checks of one identity beside an administrative call and a sweep
InitRemoval ==
    /\ now = 0 /\ RLIdle /\ BucketIdle /\ CounterIdle /\ ManagerIdle /\ QueryIdle
    /\ EngineIdle /\ HookIdle /\ RemovalInit /\ HistoryIdle
SpecRemoval == InitRemoval /\ [][RemovalNext]_vars

\* the conversation history of an engine
InitHistory ==
    /\ now = 0 /\ HistoryInit /\ RLIdle /\ BucketIdle /\ CounterIdle /\ ManagerIdle /\ QueryIdle
    /\ EngineIdle /\ HookIdle /\ RaceIdle
SpecHistory == InitHistory /\ [][HistoryNext]_vars

\* the rate limiter, one identity that heeds the retry hints
InitPurge == RLInit(SweepConfigs) /\ BucketIdle /\ CounterIdle /\ ManagerIdle /\ QueryIdle /\ OthersIdle
SpecPurge == InitPurge /\ [][PurgeNext]_vars

\* messages served through the engine cache
InitServe ==
    /\ now = 0 /\ ServeInit /\ RLIdle /\ BucketIdle /\ CounterIdle /\ QueryIdle /\ OthersIdle
SpecServe == InitServe /\ [][ServeNext]_vars

\* lookups of contexts over time
InitContext ==
    /\ now = 0 /\ ContextInit /\ RLIdle /\ BucketIdle /\ CounterIdle /\ ManagerIdle
    /\ HookIdle /\ RaceIdle /\ HistoryIdle
SpecContext == InitContext /\ [][ContextNext]_vars

InitRetry == RLInit(RetryConfigs) /\ BucketIdle /\ CounterIdle /\ ManagerIdle /\ QueryIdle /\ OthersIdle
SpecRetry == InitRetry /\ [][RetryNext]_vars

\* the identity that asks again, and the administrative unblock: the suspicious
\* threshold is below the per-minute limit, as it is by default, and the burst
\* size lets the minute count reach the per-minute limit and pass it
UnblockConfigs == { RateLimitConfig(3, 50, 50, 3, 1), RateLimitConfig(2, 50, 50, 3, 1) }
InitUnblock == RLInit(UnblockConfigs) /\ BucketIdle /\ CounterIdle /\ ManagerIdle /\ QueryIdle /\ OthersIdle
UnblockNext == RetryNext \/ \E u \in Users : Unblock(u)
SpecUnblock == InitUnblock /\ [][UnblockNext]_vars

\* either cache
InitCaches == InitManager \/ InitQuery
NextCaches == ManagerNext \/ QueryNext
SpecCaches == InitCaches /\ [][NextCaches]_vars

(***************************************************************************)
(* What the limiter's checks say of a message before it is handled: each   *)
(* stage read off the identity's stored state, independently of the others.*)
(***************************************************************************)
\* the events of queue q that are at most window seconds old at time t
Recent(q, t, window) == {i \in 1..Len(q) : q[i] >= t - window}

QueueOf(d, u) == IF u \in DOMAIN d THEN d[u] ELSE <<>>
RequestsOf(d, u) == IF u \in DOMAIN d THEN d[u].request ELSE <<>>

FailsBlocked(S, u, t) == u \in DOMAIN S.blocked_users /\ t < S.blocked_users[u]

FailsDuplicate(S, cfg, u, m, t) ==
    /\ u \in DOMAIN S.last_messages
    /\ S.last_messages[u].hash = Strip(Lower(m))
    /\ t - S.last_messages[u].time < cfg.duplicate_message_window

FailsLength(cfg, m) == StrLen(m) > cfg.max_message_lengh

\* the burst queue with this message in it holds more than brust_size events
FailsBurst(S, cfg, u, t) ==
    Cardinality(Recent(QueueOf(S.burst_tracker, u), t, cfg.brust_window)) + 1 > cfg.brust_size

\* less than one token is there once the bucket is refilled
FailsToken(S, cfg, u, t) ==
    IF u \in DOMAIN S.token_bucket
    THEN LET b == S.token_bucket[u] IN
         Min(b.capacity * TokenUnit, b.tokens + (t - b.last_refill) * b.refill_rate) < TokenUnit
    ELSE cfg.brust_size < 1

\* the window counts with this message in them
CountWith(d, u, t, window) == Cardinality(Recent(RequestsOf(d, u), t, window)) + 1

\* the window-threshold rejection this message gets, NoReason when none
WindowVerdict(S, cfg, u, t) ==
    LET mc == CountWith(S.minitue_counters, u, t, MinuteWindow)
        hc == CountWith(S.hour_counters, u, t, HourWindow)
        dc == CountWith(S.day_counters, u, t, DayWindow)
    IN  IF mc > cfg.suspicious_requests_per_minitue THEN SuspiciousReason
        ELSE IF mc > cfg.request_per_minitue THEN MinuteReason
        ELSE IF hc > cfg.request_per_hour THEN HourReason
        ELSE IF dc > cfg.request_per_day THEN DayReason
        ELSE NoReason

\* the rejection of the first failing check, in the order blocked, duplicate,
\* length, burst, token bucket, window thresholds; NoReason when none fails
FirstFailing(S, cfg, u, m, t) ==
    IF FailsBlocked(S, u, t) THEN BlockedReason
    ELSE IF FailsDuplicate(S, cfg, u, m, t) THEN DuplicateReason
    ELSE IF FailsLength(cfg, m) THEN TooLongReason
    ELSE IF FailsBurst(S, cfg, u, t) THEN BurstReason
    ELSE IF FailsToken(S, cfg, u, t) THEN TokenReason
    ELSE WindowVerdict(S, cfg, u, t)

\* this step is a check_rate_limit call
IsCheckStep == ret'.op = "check" /\ limiter'.stats # limiter.stats

(***************************************************************************)
(* C1.  Every check_rate_limit call returns a triple (allowed, reason,     *)
(* retryAfter) and never raises; a rejection carries a reason.             *)
(***************************************************************************)
C1_NeverRaises ==
    ret.op = "check" =>
        /\ ret.kind = "return"
        /\ ~ret.allowed => ret.reason # NoReason

(***************************************************************************)
(* C3.  The checks run in the order blocked, duplicate, length, burst,     *)
(* token bucket, window thresholds; the call returns the rejection of the  *)
(* first check that fails, and allows the message iff none fails.          *)
(***************************************************************************)
StageOrderStep ==
    IsCheckStep =>
        LET first == FirstFailing(limiter, config, ret'.user, ret'.message, ret'.time) IN
        /\ ret'.kind = "return"
        /\ ret'.reason = first
        /\ ret'.allowed = (first = NoReason)

C3_FirstFailingCheckWins == [][StageOrderStep]_vars

(***************************************************************************)
(* C6.  Of two consecutive messages of an identity that are identical      *)
(* after lower-casing and trimming, the second is rejected as a duplicate  *)
(* (retry hint 30) when it arrives less than duplicate_message_window      *)
(* after the first was recorded; when it arrives that long after or later, *)
(* it is not rejected as a duplicate and, absent other limits, is allowed. *)
(***************************************************************************)
\* the call behind ret stored its message as the identity's last message
Recorded(r) == r.op = "check" /\ r.reason \notin {BlockedReason, DuplicateReason}

SameAfterNormalising(m1, m2) == Strip(Lower(m1)) = Strip(Lower(m2))

\* no check other than the duplicate check stops the message
NoOtherLimit(S, cfg, u, m, t) ==
    /\ ~FailsBlocked(S, u, t)
    /\ ~FailsLength(cfg, m)
    /\ ~FailsBurst(S, cfg, u, t)
    /\ ~FailsToken(S, cfg, u, t)
    /\ WindowVerdict(S, cfg, u, t) = NoReason

IsDuplicateRejection(r) ==
    r.kind = "return" /\ ~r.allowed /\ r.reason = DuplicateReason
        /\ r.retry_after = DuplicateRetry

\* ret' is the second of two consecutive identical messages of one identity
SecondOfTwo ==
    /\ IsCheckStep
    /\ Recorded(ret)
    /\ ret'.user = ret.user
    /\ SameAfterNormalising(ret.message, ret'.message)

DuplicateStep ==
    SecondOfTwo =>
        IF ret'.time - ret.time < config.duplicate_message_window
        THEN IsDuplicateRejection(ret')
        ELSE /\ ret'.reason # DuplicateReason
             /\ NoOtherLimit(limiter, config, ret'.user, ret'.message, ret'.time)
                    => ret'.kind = "return" /\ ret'.allowed

C6_DuplicateWindow == [][DuplicateStep]_vars

(***************************************************************************)
(* C7.  A message that reaches the burst stage with more than brust_size   *)
(* events in the burst queue (the last brust_window seconds, itself        *)
(* included) gets (False, reason, 10) and the burst-violation counter goes *)
(* up by one; with brust_size events or fewer it is not rejected for burst.*)
(***************************************************************************)
ReachesBurstStage(S, cfg, u, m, t) ==
    ~FailsBlocked(S, u, t) /\ ~FailsDuplicate(S, cfg, u, m, t) /\ ~FailsLength(cfg, m)

BurstStep ==
    (IsCheckStep /\ ReachesBurstStage(limiter, config, ret'.user, ret'.message, ret'.time)) =>
        IF FailsBurst(limiter, config, ret'.user, ret'.time)
        THEN /\ ret'.kind = "return" /\ ~ret'.allowed
             /\ ret'.reason = BurstReason /\ ret'.retry_after = BurstRetry
             /\ limiter'.stats["burst_violations"] = limiter.stats["burst_violations"] + 1
        ELSE ret'.reason # BurstReason

C7_BurstRejection == [][BurstStep]_vars

(***************************************************************************)
(* C8.  From the moment t0 an identity's minute count exceeds the          *)
(* suspicious threshold, and absent an administrative unblock or reset,    *)
(* every check of the identity before t0 + block_durtion is rejected as    *)
(* blocked with retryAfter = blockUntil - t; its first message at or after *)
(* t0 + block_durtion is not rejected as blocked and is allowed when it is *)
(* within the length limit and the hour and day limits are not exceeded.   *)
(***************************************************************************)
C8_BlockLastsBlockDuration ==
    (ret.op = "check" /\ ret.suspect # None) =>
        IF ret.time < ret.suspect + config.block_durtion
        THEN /\ ret.kind = "return" /\ ~ret.allowed
             /\ ret.reason = BlockedReason
             /\ ret.retry_after = ret.suspect + config.block_durtion - ret.time
        ELSE /\ ret.reason # BlockedReason
             /\ \/ ret.kind = "return" /\ ret.allowed
                \/ ret.kind = "return" /\ ret.reason \in {TooLongReason, HourReason, DayReason}

(***************************************************************************)
(* C4.  After any sequence of consume(n) calls, n >= 1, at non-decreasing  *)
(* times, the token count of a TokenBucket is never negative and never     *)
(* above its capacity.                                                     *)
(***************************************************************************)
C4_TokensWithinBounds ==
    /\ 0 <= bucket.tokens
    /\ bucket.tokens <= bucket.capacity * TokenUnit

\* a consume was refused because the bucket held less than was asked for
C4_Witness ==
    /\ bucket_ret.op = "consume"
    /\ ~bucket_ret.ok
    /\ bucket.tokens < bucket_ret.asked * TokenUnit
    /\ bucket.tokens > 0

(***************************************************************************)
(* C5.  After add_request calls with non-decreasing timestamps,            *)
(* get_count(t), t not earlier than the latest recorded timestamp, is the  *)
(* number of recorded events in the half-open interval (t-w, t]: an event  *)
(* exactly w seconds old is not counted.                                   *)
(***************************************************************************)
\* the instants a count may be asked for next
CountInstants == now..(now + MaxWindow + 1)

EventsIn(lo, hi, lo_closed) ==
    Cardinality({ i \in 1..Len(recorded) :
                    /\ IF lo_closed THEN lo <= recorded[i] ELSE lo < recorded[i]
                    /\ recorded[i] <= hi })

C5_CountHalfOpen ==
    \A t \in CountInstants :
        get_count(counter, t).count = EventsIn(t - counter.window_size, t, FALSE)

(***************************************************************************)
(* C5, as the code has it: get_count(t) is the number of recorded events   *)
(* in the closed interval [t-w, t]; an event exactly w seconds old is      *)
(* still counted.                                                          *)
(***************************************************************************)
C5_CountClosed ==
    \A t \in CountInstants :
        get_count(counter, t).count = EventsIn(t - counter.window_size, t, TRUE)

\* a count that took in an event exactly w seconds old and left out an older one
C5_Witness ==
    /\ counter_ret.op = "get_count"
    /\ \E i \in 1..Len(recorded) : recorded[i] = counter_ret.time - counter.window_size
    /\ \E i \in 1..Len(recorded) : recorded[i] < counter_ret.time - counter.window_size
    /\ counter_ret.count = EventsIn(counter_ret.time - counter.window_size,
                                    counter_ret.time, TRUE)
    /\ counter_ret.count > 0
    /\ counter_ret.count < Len(recorded)

(***************************************************************************)
(* C2.  Two concurrent get_or_create_rag calls for the same client id that *)
(* has no unexpired entry construct exactly one RAGBot, and both callers   *)
(* receive that instance.                                                  *)
(***************************************************************************)
\* both calls are between their construction and their return
BothConstructed(t1, t2) ==
    /\ t1 # t2
    /\ calls[t1].pc = "insert" /\ calls[t2].pc = "insert"
    /\ calls[t1].client_id = calls[t2].client_id

C2_OneEnginePerClient ==
    \A t1, t2 \in Tasks :
        BothConstructed(t1, t2) =>
            /\ calls[t1].rag = calls[t2].rag
            /\ Cardinality({ i \in 1..Len(bots) : bots[i].client_id = calls[t1].client_id }) = 1

(***************************************************************************)
(* C9.  Neither cache serves a stale entry.  A get_or_create_rag call,     *)
(* whose clock reading is its "now", returns a cached engine as a hit only *)
(* while now < expires_at, the entry's age below the ttl; get_cached_query *)
(* never returns a context older than max_age_seconds; and a query entry   *)
(* found expired is removed by the lookup that found it.                   *)
(***************************************************************************)
\* the age, at the call's clock reading, of the engine the call was handed
EngineAge(call) == call.current_time - bots[call.rag].created

ServedFromCache(call) == call.pc = "returned" /\ call.hit

C9_NoStaleEntry ==
    /\ \A t \in Tasks :
          ServedFromCache(calls[t]) => EngineAge(calls[t]) < ttl_seconds
    /\ (query_ret.op = "get_cached_query" /\ query_ret.found) =>
          /\ query_ret.time - query_ret.data.timestamp <= max_age_seconds
          /\ query_ret.data.key = query_hash(query_ret.query)
    /\ (query_ret.op = "get_cached_query" /\ ~query_ret.found) =>
          HashIndex(engine_cache.query_cache, query_hash(query_ret.query)) = 0

\* an engine served in the last second of its life
C9_Witness ==
    \E t \in Tasks :
        /\ ServedFromCache(calls[t])
        /\ EngineAge(calls[t]) = ttl_seconds - 1

(***************************************************************************)
(* C10.  When a call inserts an engine for a client that is not cached     *)
(* while the cache holds max_cache_size entries, exactly one entry is      *)
(* evicted, the one with the smallest expires_at among those already       *)
(* cached, and the engine just inserted stays in the cache, a hit for the  *)
(* next call; the cache never holds more than max_cache_size entries.      *)
(***************************************************************************)
Entries(cache) == { cache[i] : i \in 1..Len(cache) }

OverflowingInsert(t) ==
    /\ calls[t].pc = "insert" /\ calls'[t].pc = "returned"
    /\ KeyIndex(rag_cache.cache, calls[t].client_id) = 0
    /\ Len(rag_cache.cache) = rag_cache.max_cache_size

EvictsOldestCached(t) ==
    LET inserted == [client_id |-> calls[t].client_id, rag |-> calls[t].rag,
                     expires_at |-> calls[t].current_time + rag_cache.ttl_seconds]
    IN  /\ \E old \in Entries(rag_cache.cache) :
              /\ \A e \in Entries(rag_cache.cache) : old.expires_at <= e.expires_at
              /\ Entries(rag_cache'.cache) =
                     (Entries(rag_cache.cache) \ {old}) \cup {inserted}
        /\ IsHit(rag_cache'.cache, calls[t].client_id, calls[t].current_time)

EvictionStep ==
    /\ \A t \in Tasks : OverflowingInsert(t) => EvictsOldestCached(t)
    /\ Len(rag_cache'.cache) <= rag_cache'.max_cache_size

C10_EvictsOldestKeepsNew == [][EvictionStep]_vars

(***************************************************************************)
(* C11.  The query cache never holds more than max_query_cache entries.    *)
(* When a new question is cached while the cache is full, exactly one      *)
(* entry is removed, the earliest-inserted one, and the new entry is what  *)
(* an immediately following get_cached_query for the question returns.     *)
(***************************************************************************)
\* this step is a cache_query_result call
IsCacheStep ==
    /\ query_ret'.op = "cache_query_result"
    /\ <<engine_cache, query_ret>>' # <<engine_cache, query_ret>>

\* the call stores a question that is not in the cache, and the cache is full
CachesNewWhenFull ==
    /\ IsCacheStep
    /\ StrLen(query_ret'.query) > 0 /\ query_ret'.data.context # ""
    /\ HashIndex(engine_cache.query_cache, query_hash(query_ret'.query)) = 0
    /\ Len(engine_cache.query_cache) = engine_cache.max_query_cache

QueryCacheStep ==
    /\ Len(engine_cache'.query_cache) <= engine_cache'.max_query_cache
    /\ CachesNewWhenFull =>
          LET before == engine_cache.query_cache
              after == engine_cache'.query_cache
              asked == get_cached_query(engine_cache', query_ret'.query,
                                        max_age_seconds, query_ret'.time)
          IN  /\ Len(after) = Len(before)
              /\ \A i \in 2..Len(before) : after[i - 1] = before[i]
              /\ \A i \in 1..Len(after) : after[i].key # before[1].key
              /\ after[Len(after)].key = query_hash(query_ret'.query)
              /\ asked.found
              /\ asked.data.context = query_ret'.data.context
              /\ asked.data.timestamp = query_ret'.time

C11_QueryCacheBounded == [][QueryCacheStep]_vars

\* a new question pushed the earliest of two cached questions out
C11_Witness ==
    /\ query_ret.op = "cache_query_result"
    /\ StrLen(query_ret.query) > 0 /\ query_ret.data.context # ""
    /\ Len(query_ret.before) = engine_cache.max_query_cache
    /\ Len(query_ret.before) >= 2
    /\ \A i \in 1..Len(query_ret.before) : query_ret.before[i] # query_hash(query_ret.query)
    /\ HashIndex(engine_cache.query_cache, query_ret.before[1]) = 0
    /\ HashIndex(engine_cache.query_cache, query_ret.before[2]) # 0
    /\ HashIndex(engine_cache.query_cache, query_hash(query_ret.query)) # 0


(***************************************************************************)
(* C19.  _call_api maps each failure class of the generation request       *)
(* (timeout, connection failure, non-2xx status, malformed JSON, missing   *)
(* or empty candidate text, safety block, truncation) to a fixed fallback  *)
(* string, strings of different classes differ, and it never raises.       *)
(***************************************************************************)
FailureClass(r) ==
    IF r.outcome = "timeout" THEN "timeout"
    ELSE IF r.outcome = "connection" THEN "connection"
    ELSE IF r.outcome = "response" /\ r.status >= 300 THEN "status"
    ELSE IF r.outcome # "response" THEN "none"
    ELSE IF r.json = "invalid" THEN "json"
    ELSE IF r.json # "object" THEN "none"
    ELSE IF r.finish = "SAFETY" THEN "safety"
    ELSE IF r.finish = "MAX_TOKENS" THEN "truncation"
    ELSE IF ~r.candidates \/ r.parts = "none" \/ (r.parts = "list" /\ r.text.len = 0)
         THEN "no_text"
    ELSE "none"

FixedFallbacks ==
    {TimeoutFallback, BadRequestFallback, TooManyFallback, ServerErrorFallback,
     UnreachableFallback, ConnectionFallback, BadJsonFallback, NoCandidatesFallback,
     SafetyFallback, NoTextFallback, ParsingFallback, UnexpectedFallback}

C19_FailureFallbacks ==
    reply.op = "_call_api" /\ FailureClass(reply.env.upstream) # "none" =>
        /\ reply.kind = "return"
        /\ reply.value \in FixedFallbacks
        /\ \A u \in Upstreams :
              FailureClass(u) \notin {"none", FailureClass(reply.env.upstream)}
                  => _call_api(u) # reply.value


(***************************************************************************)
(* C15.  When the generation request of an invoke call times out, invoke   *)
(* returns exactly the timeout fallback string, nothing added, and issued  *)
(* exactly one generation request.                                         *)
(***************************************************************************)
GenerationTimedOut ==
    /\ reply.op = "invoke"
    /\ reply.generations >= 1
    /\ reply.env.upstream.outcome = "timeout"

C15_TimeoutFallbackExact ==
    GenerationTimedOut =>
        /\ reply.kind = "return"
        /\ reply.value = TimeoutFallback
        /\ reply.generations = 1

(***************************************************************************)
(* C16.  invoke never raises: it returns a string for every input and      *)
(* every failure, and the fixed apology when an exception occurs inside.   *)
(***************************************************************************)
\* the invoke call behind reply had an exception thrown inside its try block
ThrewInside ==
    /\ reply.op = "invoke"
    /\ StrLen(reply.query) > 0
    /\ reply.env.prompt_raises

C16_InvokeNeverRaises ==
    reply.op = "invoke" =>
        /\ reply.kind = "return"
        /\ ThrewInside => reply.value = InternalErrorApology

C16_Witness == ThrewInside /\ reply.kind = "return" /\ reply.value = InternalErrorApology

(***************************************************************************)
(* C20.  When the embedding request of an invoke call fails or times out,  *)
(* the call is abandoned without retry: one embedding request, no          *)
(* generation request, and a fixed degraded message instead of model text. *)
(***************************************************************************)
EmbeddingFailed ==
    /\ reply.op = "invoke"
    /\ reply.embeddings >= 1
    /\ reply.env.embed # "ok"

\* the fixed messages of invoke
DegradedMessages == {PleaseProvide, SystemNotReady, IncompleteApology, InternalErrorApology}

C20_EmbeddingFailureAbandons ==
    EmbeddingFailed =>
        /\ reply.kind = "return"
        /\ reply.embeddings = 1
        /\ reply.generations = 0
        /\ reply.value \in DegradedMessages


(***************************************************************************)
(* C12.  When invoke_for_Res gets from the model a structured result in    *)
(* the declared schema with status true, an item name and a price, and the *)
(* passages retrieved for the item state a different price, the result     *)
(* returned carries the price of the text, not the model's.                *)
(***************************************************************************)
\* the call behind reply got a dictionary of the declared schema for an item
GotPricedItem ==
    /\ reply.op = "invoke_for_Res"
    /\ StrLen(reply.query) > 0
    /\ ~reply.env.prompt_raises
    /\ _call_api(reply.env.upstream) = JsonText
    /\ reply.order.structured.status
    /\ reply.order.structured.food_name \notin {"", NoKey}
    /\ reply.order.structured.price # None

\* the price the retrieved passages state for the item, None when they state none
TextPrice ==
    IF reply.order.verify_embed = "ok"
    THEN _extract_price_from_menu(reply.order.menu, reply.order.structured.food_name,
                                  GetText(reply.order.structured.size))
    ELSE None

C12_TextPriceWins ==
    /\ GotPricedItem
    /\ reply.order.structured.quantity = 1
    /\ TextPrice # None
    /\ TextPrice # reply.order.structured.price
    => /\ reply.kind = "return"
       /\ reply.result.price = TextPrice

(***************************************************************************)
(* C13.  For an order of q units of an item whose text gives the unit      *)
(* price p, the result returned by invoke_for_Res has quantity q and price *)
(* q * p, whatever price the model extracted.                              *)
(***************************************************************************)
C13_PriceTimesQuantity ==
    /\ GotPricedItem
    /\ reply.order.structured.quantity >= 1
    /\ TextPrice # None
    => /\ reply.kind = "return"
       /\ reply.result.quantity = reply.order.structured.quantity
       /\ reply.result.price = reply.order.structured.quantity * TextPrice

(***************************************************************************)
(* C17.  invoke_for_Res never raises: for every input and every internal   *)
(* failure, such as generated text that cannot be parsed as the structured *)
(* result, it returns a dictionary with status false and a reason.         *)
(***************************************************************************)
\* the call behind reply had an exception thrown inside its try block
ResThrewInside ==
    /\ reply.op = "invoke_for_Res"
    /\ StrLen(reply.query) > 0
    /\ reply.env.prompt_raises \/ _call_api(reply.env.upstream) # JsonText

C17_InvokeForResNeverRaises ==
    reply.op = "invoke_for_Res" =>
        /\ reply.kind = "return"
        /\ ResThrewInside =>
              /\ ~reply.result.status
              /\ reply.result.reason \notin {"", NoKey}


(***************************************************************************)
(* C14.  For every inbound message, get_or_create_rag, and with it any     *)
(* engine construction, is called only after check_rate_limit has allowed  *)
(* that message; a rejected message causes no engine lookup or build.      *)
(***************************************************************************)
EngineCalls == {"get_or_create_rag", "RAGBot"}

\* call j of the handler comes after check_rate_limit allowed the message
AfterAdmission(h, j) ==
    \E i \in 1..(j - 2) : h.events[i] = "check_rate_limit" /\ h.events[i + 1] = "allowed"

C14_EngineOnlyAfterAdmission ==
    \A m \in DOMAIN hook :
        \A j \in DOMAIN hook[m].events :
            hook[m].events[j] \in EngineCalls => AfterAdmission(hook[m], j)


(***************************************************************************)
(* C18.  Under every interleaving of concurrent check_rate_limit calls for *)
(* one identity the state is as if guarded by a per-identity lock: one     *)
(* TokenBucket and one set of counters exist, and every call that passed   *)
(* the token stage is deducted from the bucket and, once it has returned,  *)
(* counted in the counters that later calls see.                           *)
(***************************************************************************)
Passed == {t \in Threads : race.threads[t].passed}
Counted == {t \in Threads : race.threads[t].result = "allowed"}

C18_NoLostUpdate ==
    /\ Len(race.buckets) <= 1
    /\ Len(race.trackers) <= 1
    /\ race.token_bucket # 0 =>
          race.buckets[race.token_bucket].tokens
              = (race.brust_size - Cardinality(Passed)) * TokenUnit
    /\ race.minitue_counters # 0 =>
          LET seen == race.trackers[race.minitue_counters] IN
          /\ Len(seen.minitue.request) = Cardinality(Counted)
          /\ Len(seen.hour.request) = Cardinality(Counted)
          /\ Len(seen.day.request) = Cardinality(Counted)


(***************************************************************************)
(* C21.  After any sequence of add_to_history calls a client's history     *)
(* holds at most max_history_size turns and equals the most recent         *)
(* max_history_size non-blank turns added for it, in the order they were   *)
(* added; a call with empty or whitespace-only content adds nothing.       *)
(***************************************************************************)
\* the content has a character that is no blank
NonBlank(content) ==
    content.fill > 0 \/ \E i \in 1..Len(content.chars) : content.chars[i] # " "

\* the calls so far that added a turn for the client, in order
RECURSIVE TurnsOf(_, _)
TurnsOf(log, client_id) ==
    IF log = <<>> THEN <<>>
    ELSE LET rest == TurnsOf(SubSeq(log, 1, Len(log) - 1), client_id)
             last == log[Len(log)]
         IN  IF last.client_id = client_id /\ NonBlank(last.content)
             THEN Append(rest, last) ELSE rest

\* turn k counted from the end of the history is call k counted from the end
MostRecent(h, added) ==
    /\ Len(h) = Min(Len(added), history.max_history_size)
    /\ \A k \in 0..(Len(h) - 1) :
          LET turn == h[Len(h) - k]
              call == added[Len(added) - k]
          IN  /\ turn.role = call.role
              /\ turn.timestamp = call.time
              /\ turn.content = Strip(call.content)

C21_HistoryBounded ==
    \A c \in HistoryClients :
        /\ Len(get_history(history, c)) <= history.max_history_size
        /\ MostRecent(get_history(history, c), TurnsOf(turns, c))

\* the history of a client overflowed, and a blank turn was offered for it
C21_Witness ==
    \E c \in HistoryClients :
        /\ Len(TurnsOf(turns, c)) > history.max_history_size
        /\ Len(get_history(history, c)) = history.max_history_size
        /\ \E i \in DOMAIN turns : turns[i].client_id = c /\ ~NonBlank(turns[i].content)


(***************************************************************************)
(* C22.  consume(n) first refills (tokens := min(capacity, tokens +        *)
(* elapsed * refill_rate), last_refill := now) and returns true iff the    *)
(* refilled count is >= n; on true exactly n is subtracted, on false the   *)
(* token count is the refilled count.                                      *)
(***************************************************************************)
\* the token count of the bucket before the call, refilled at the call's time
RefilledBefore ==
    LET b == bucket_ret.before
        grown == b.tokens + (bucket_ret.time - b.last_refill) * b.refill_rate
    IN  IF grown > b.capacity * TokenUnit THEN b.capacity * TokenUnit ELSE grown

C22_ConsumeRefillsThenTakes ==
    bucket_ret.op = "consume" =>
        /\ bucket.last_refill = bucket_ret.time
        /\ bucket_ret.ok = (RefilledBefore >= bucket_ret.asked * TokenUnit)
        /\ bucket_ret.ok => bucket.tokens = RefilledBefore - bucket_ret.asked * TokenUnit
        /\ ~bucket_ret.ok => bucket.tokens = RefilledBefore

\* a consume was refused after a refill that added tokens
C22_Witness ==
    /\ bucket_ret.op = "consume"
    /\ ~bucket_ret.ok
    /\ bucket_ret.time > bucket_ret.before.last_refill
    /\ bucket.tokens > bucket_ret.before.tokens


(***************************************************************************)
(* C23.  When consume() fails at the token-bucket stage, check_rate_limit  *)
(* rejects with retryAfter = floor((1 - tokens) / refill_rate) + 1 >= 1,   *)
(* and the hint is sufficient: the identity's next message, sent no        *)
(* earlier than retryAfter seconds later, is not stopped by the token      *)
(* bucket.                                                                 *)
(***************************************************************************)
TokenRejected == ret.op = "check" /\ ret.kind = "return" /\ ret.reason = TokenReason

\* the hint is the whole seconds until one token is there, plus one
HintValue ==
    TokenRejected =>
        LET b == limiter.token_bucket[ret.user] IN
        /\ b.tokens < TokenUnit
        /\ ret.retry_after = (TokenUnit - b.tokens) \div b.refill_rate + 1
        /\ ret.retry_after >= 1

\* this step is the identity's next message after a token rejection, sent after
\* the time it was told to wait
AsksAgainInTime ==
    /\ TokenRejected
    /\ ret'.op = "check"
    /\ ret'.user = ret.user
    /\ ret'.time >= ret.time + ret.retry_after

\* the call behind ret went through the token-bucket stage
PassedTokenStage ==
    \/ ret.kind = "return"
       /\ ret.reason \in {NoReason, SuspiciousReason, MinuteReason, HourReason, DayReason}
    \/ ret.kind = "raise" /\ ret.reason = "AttributeError"

\* the call behind ret was stopped before it reached the token-bucket stage
StoppedEarlier ==
    \/ ret.kind = "return" /\ ret.reason \in {BlockedReason, DuplicateReason, TooLongReason, BurstReason}
    \/ ret.kind = "raise" /\ ret.reason = "KeyError"

RetryStep ==
    /\ HintValue'
    /\ AsksAgainInTime => (PassedTokenStage' \/ StoppedEarlier')

MinuteCount == Len(limiter.minitue_counters[ret.user].request)
HourCount == Len(limiter.hour_counters[ret.user].request)
DayCount == Len(limiter.day_counters[ret.user].request)

\* the event of the call behind ret is the newest one of the counter
RecordedIn(counters) ==
    /\ ret.user \in DOMAIN counters
    /\ Len(counters[ret.user].request) >= 1
    /\ counters[ret.user].request[Len(counters[ret.user].request)] = ret.time

Rejected(reason, retry_after) ==
    ret.kind = "return" /\ ~ret.allowed /\ ret.reason = reason /\ ret.retry_after = retry_after

C24_WindowThresholds ==
    (ret.op = "check" /\ PassedTokenStage) =>
        /\ RecordedIn(limiter.minitue_counters)
        /\ RecordedIn(limiter.hour_counters)
        /\ RecordedIn(limiter.day_counters)
        /\ IF MinuteCount > config.suspicious_requests_per_minitue
           THEN /\ Rejected(SuspiciousReason, config.block_durtion)
                /\ ret.user \in DOMAIN limiter.blocked_users
                /\ limiter.blocked_users[ret.user] = ret.time + config.block_durtion
           ELSE IF MinuteCount > config.request_per_minitue
           THEN Rejected(MinuteReason, 60)
           ELSE IF HourCount > config.request_per_hour
           THEN Rejected(HourReason, 300)
           ELSE IF DayCount > config.request_per_day
           THEN Rejected(DayReason, 3600)
           ELSE \/ ret.kind = "return" /\ ret.allowed
                \/ ret.kind = "raise" /\ ret.reason = "AttributeError"

\* a message whose minute count is exactly the suspicious threshold went through
C24_Witness ==
    /\ ret.op = "check" /\ ret.kind = "return" /\ ret.allowed
    /\ MinuteCount = config.suspicious_requests_per_minitue


(***************************************************************************)
(* C25.  Every check that is not rejected as blocked or as duplicate       *)
(* stores (hash of the message, now) as the identity's last message, also  *)
(* when the message is then rejected for length, burst, token bucket or a  *)
(* window threshold; re-sending such a rejected message within the         *)
(* duplicate window is rejected as a duplicate, or, when that rejection    *)
(* blocked the identity, as blocked.                                       *)
(***************************************************************************)
\* the call behind ret got past the block and duplicate tests
PastDuplicateTest ==
    /\ ret.op = "check"
    /\ ~(ret.kind = "return" /\ ret.reason \in {BlockedReason, DuplicateReason})

LastMessageStored ==
    PastDuplicateTest =>
        /\ ret.user \in DOMAIN limiter.last_messages
        /\ limiter.last_messages[ret.user] =
               [hash |-> message_hash(ret.message), time |-> ret.time]

\* the call behind ret was turned away at the length, burst, token or window stage
RejectedLater ==
    /\ PastDuplicateTest
    /\ \/ ret.kind = "return" /\ ~ret.allowed
       \/ ret.kind = "raise" /\ ret.reason = "KeyError"

\* this step is the same identity sending the same message again inside the
\* duplicate window
Resent ==
    /\ RejectedLater
    /\ ret'.op = "check"
    /\ ret'.user = ret.user
    /\ message_hash(ret'.message) = message_hash(ret.message)
    /\ ret'.time - ret.time < config.duplicate_message_window

ResendStep ==
    /\ LastMessageStored'
    /\ Resent =>
         /\ ret'.kind = "return" /\ ~ret'.allowed
         /\ IF IsBlocked(limiter.blocked_users, ret.user, ret'.time)
            THEN ret'.reason = BlockedReason
            ELSE ret'.reason = DuplicateReason

C25_ResendRejected == [][ResendStep]_vars

\* the claim as stated: the message sent again is always rejected as a duplicate
ResendStepDuplicate ==
    /\ LastMessageStored'
    /\ Resent => (ret'.kind = "return" /\ ret'.reason = DuplicateReason)

C25_ResendIsDuplicate == [][ResendStepDuplicate]_vars

\* a message rejected as suspicious was sent again inside the duplicate window
\* and turned away as blocked: the record is that of the rejected message
C25_Witness ==
    /\ ret.op = "check" /\ ret.kind = "return" /\ ret.reason = BlockedReason
    /\ ret.user \in DOMAIN limiter.last_messages
    /\ limiter.last_messages[ret.user].hash = message_hash(ret.message)
    /\ ret.time - limiter.last_messages[ret.user].time < config.duplicate_message_window
    /\ limiter.blocked_users[ret.user] =
           limiter.last_messages[ret.user].time + config.block_durtion


(***************************************************************************)
(* C26.  A sweep removes the token bucket, the three counters and the      *)
(* burst queue of exactly those identities that have no recorded event in  *)
(* the past 86400 s; it removes only block entries with blockUntil <= now  *)
(* and only last-message records older than 3600 s; it never removes an    *)
(* unexpired block, a last-message record inside the duplicate window or   *)
(* the state of an identity with an event in the day window.               *)
(***************************************************************************)
\* this step is a check_rate_limit call during which the sweep ran
SweepRan == ret'.op = "check" /\ limiter'.last_cleanup # limiter.last_cleanup

\* the identities with per-identity state when the sweep starts: those known
\* before the call and the caller
KnownUsers ==
    DOMAIN limiter.token_bucket \cup DOMAIN limiter.minitue_counters
        \cup DOMAIN limiter.hour_counters \cup DOMAIN limiter.day_counters
        \cup DOMAIN limiter.burst_tracker \cup {ret'.user}

\* an event of the identity in the 86400 s before the sweep; the caller's own
\* message is one
HasDayEvent(u) ==
    \/ u = ret'.user
    \/ /\ u \in DOMAIN limiter.day_counters
       /\ \E i \in 1..Len(limiter.day_counters[u].request) :
              limiter.day_counters[u].request[i] >= ret'.time - DayWindow

InDayWindow(timestamp) == timestamp >= ret'.time - DayWindow

SweepStep ==
    SweepRan =>
        LET active == {u \in KnownUsers : HasDayEvent(u)}
            others == active \ {ret'.user}
        IN  /\ DOMAIN limiter'.token_bucket = active
            /\ DOMAIN limiter'.minitue_counters = active
            /\ DOMAIN limiter'.hour_counters = active
            /\ DOMAIN limiter'.day_counters = active
            /\ DOMAIN limiter'.burst_tracker = active
            /\ \A u \in others :
                   /\ limiter'.token_bucket[u] = limiter.token_bucket[u]
                   /\ limiter'.minitue_counters[u] = limiter.minitue_counters[u]
                   /\ limiter'.hour_counters[u] = limiter.hour_counters[u]
                   /\ limiter'.burst_tracker[u] = limiter.burst_tracker[u]
                   /\ limiter'.day_counters[u].request =
                          SelectSeq(limiter.day_counters[u].request, InDayWindow)
            /\ \A u \in DOMAIN limiter.blocked_users \ {ret'.user} :
                   limiter.blocked_users[u] > ret'.time =>
                       /\ u \in DOMAIN limiter'.blocked_users
                       /\ limiter'.blocked_users[u] = limiter.blocked_users[u]
            /\ \A u \in DOMAIN limiter.last_messages \ {ret'.user} :
                   limiter.last_messages[u].time >= ret'.time - LastMessageHorizon =>
                       /\ u \in DOMAIN limiter'.last_messages
                       /\ limiter'.last_messages[u] = limiter.last_messages[u]

C26_SweepSelects == [][SweepStep]_vars

\* a sweep has purged the trackers of an identity and kept those of the caller
C26_Witness ==
    /\ ret.op = "check" /\ ret.kind = "raise" /\ ret.reason = "AttributeError"
    /\ limiter.last_cleanup = ret.time
    /\ DOMAIN limiter.token_bucket = {ret.user}
    /\ DOMAIN limiter.day_counters = {ret.user}


(***************************************************************************)
(* C27.  Whenever check_rate_limit is called more than the cleanup         *)
(* interval (300 s) after the last sweep, the sweep runs during that call, *)
(* whatever the call's outcome, allowed or rejected.                       *)
(***************************************************************************)
\* this step is a check_rate_limit call made when a sweep is due
SweepDue == ret'.op = "check" /\ ret'.time - limiter.last_cleanup > cleanup_interval

SweepDueStep == SweepDue => limiter'.last_cleanup = ret'.time

C27_SweepOnEveryCall == [][SweepDueStep]_vars


(***************************************************************************)
(* C28.  A rejected message is never partially admitted: after a           *)
(* check_rate_limit call that returns allowed = false, the identity's      *)
(* token count (apart from time-based refill) and its minute, hour and day *)
(* event counts are the same as they were before the call.                 *)
(***************************************************************************)
\* this step is a check_rate_limit call that returned a rejection
RejectingCall == ret'.op = "check" /\ ret'.kind = "return" /\ ~ret'.allowed

\* the identity's bucket before the call, created full on first sight
BucketBefore ==
    IF ret'.user \in DOMAIN limiter.token_bucket
    THEN limiter.token_bucket[ret'.user]
    ELSE TokenBucket(config.brust_size, config.request_per_minitue, ret'.time)

\* the events of the identity that a counter counted before the call, at the
\* time of the call
CountBefore(counters) ==
    IF ret'.user \in DOMAIN counters
    THEN get_count(counters[ret'.user], ret'.time).count
    ELSE 0

NothingAdmitted ==
    (RejectingCall /\ ret'.user \in DOMAIN limiter'.token_bucket) =>
        /\ limiter'.token_bucket[ret'.user].tokens
               \in {BucketBefore.tokens, Refill(BucketBefore, ret'.time).tokens}
        /\ Len(limiter'.minitue_counters[ret'.user].request)
               = CountBefore(limiter.minitue_counters)
        /\ Len(limiter'.hour_counters[ret'.user].request)
               = CountBefore(limiter.hour_counters)
        /\ Len(limiter'.day_counters[ret'.user].request)
               = CountBefore(limiter.day_counters)

C28_NoPartialAdmission == [][NothingAdmitted]_vars


(***************************************************************************)
(* C29.  If verification recovers no number for the item, or its retrieval *)
(* returns nothing, or the verification step itself fails, invoke_for_Res  *)
(* returns the model's price unchanged; in every case verification changes *)
(* no field of the result other than price.                                *)
(***************************************************************************)
\* the call behind reply got a dictionary from the model that names an item
Extracted ==
    /\ reply.op = "invoke_for_Res"
    /\ StrLen(reply.query) > 0
    /\ reply.env.upstream = Answer(JsonText)
    /\ reply.order.structured.status

\* the verification has no number to put in the place of the model's price
NothingRecovered ==
    \/ reply.order.verify_embed # "ok"
    \/ Len(reply.order.menu) = 0
    \/ StripRaises(reply.order.structured)
    \/ _extract_price_from_menu(reply.order.menu,
                                GetText(reply.order.structured.foodname),
                                GetText(reply.order.structured.size)) = None

C29_OnlyPriceChanges ==
    Extracted =>
        /\ reply.kind = "return"
        /\ reply.result = [reply.order.structured EXCEPT !.price = reply.result.price]
        /\ NothingRecovered => reply.result.price = reply.order.structured.price


(***************************************************************************)
(* C30.  Within 600 s of a successful retrieval for a question, a second   *)
(* get_context for a question whose sanitized text is the same up to       *)
(* letter case returns the cached context without an embedding request,    *)
(* as long as fewer than max_query_cache contexts have been stored since;  *)
(* contexts are stored only after a successful, non-empty retrieval.       *)
(***************************************************************************)
\* this step is a get_context call
LooksUp == query_ret'.op = "get_context"

\* the last stored retrieval for the question of this step
RetrievedBefore == query_ret.retrieved[query_ret'.data.key]

\* this step asks again, not later than 600 s after a successful retrieval for
\* the same question
AsksAgain ==
    /\ LooksUp
    /\ query_ret'.data.key \in DOMAIN query_ret.retrieved
    /\ query_ret'.time - RetrievedBefore.time <= max_age_seconds

ContextFromCache ==
    /\ query_ret'.found
    /\ query_ret'.data.context = RetrievedBefore.context
    /\ reply'.embeddings = 0
    /\ engine'.embedding_requests = engine.embedding_requests

\* the entries of the cache after the step that were not there before
NewEntries ==
    { engine_cache'.query_cache[i] : i \in 1..Len(engine_cache'.query_cache) }
        \ { engine_cache.query_cache[i] : i \in 1..Len(engine_cache.query_cache) }

StoredOnlyRetrieved ==
    LooksUp =>
        \A e \in NewEntries :
            /\ reply'.env.embed = "ok" /\ reply'.env.docs # ""
            /\ reply'.embeddings = 1
            /\ e = [key |-> query_ret'.data.key, context |-> reply'.env.docs,
                    timestamp |-> query_ret'.time]

ContextStep ==
    /\ StoredOnlyRetrieved
    /\ (AsksAgain /\ RetrievedBefore.later < engine_cache.max_query_cache) => ContextFromCache

C30_CachedContextServed == [][ContextStep]_vars

\* the claim as stated: whatever was stored in between
ContextStepAlways ==
    /\ StoredOnlyRetrieved
    /\ AsksAgain => ContextFromCache

C30_CachedContextAlways == [][ContextStepAlways]_vars

\* a question that differs in letter case from the one retrieved exactly 600 s
\* before, with another context stored in between, was served from the cache
C30_Witness ==
    /\ query_ret.op = "get_context" /\ query_ret.found
    /\ query_ret.data.key # sanitize_query(query_ret.query)
    /\ query_ret.data.key \in DOMAIN query_ret.retrieved
    /\ query_ret.time - query_ret.retrieved[query_ret.data.key].time = max_age_seconds
    /\ query_ret.retrieved[query_ret.data.key].later = 1


(***************************************************************************)
(* C31.  For every RAGBot.invoke call served through the engine cache, the *)
(* user context (user name and goals) placed in the prompt is that of the  *)
(* sender of the message being answered, also when the cached engine for   *)
(* that client was created by a message from a different sender.           *)
(***************************************************************************)
C31_ContextOfSender ==
    \A t \in Tasks :
        calls[t].pc = "answered" => calls[t].user_context = calls[t].sender_number


(***************************************************************************)
(* C32.  For one TokenBucket with capacity C and refill rate r, in any     *)
(* time interval of length L the number of consume() calls that return     *)
(* true is at most C + r * L.                                              *)
(***************************************************************************)
\* the calls that returned True at a time between from and to
GrantedIn(from, to) ==
    Cardinality({ i \in 1..Len(bucket_ret.granted) :
                      from <= bucket_ret.granted[i] /\ bucket_ret.granted[i] <= to })

\* C + r * L for the interval, in sixtieths of a token
GrantLimit(from, to) == bucket.capacity * TokenUnit + bucket.refill_rate * (to - from)

C32_GrantsBounded ==
    \A from \in 0..now : \A to \in from..now :
        GrantedIn(from, to) * TokenUnit <= GrantLimit(from, to)

\* an interval of positive length, not starting at the bucket's creation, in
\* which as many calls were granted as the limit allows
C32_Witness ==
    /\ bucket_ret.op = "consume" /\ bucket_ret.ok
    /\ \E from \in 0..now : \E to \in (from + 1)..now :
           /\ from > 0
           /\ GrantedIn(from, to) * TokenUnit = GrantLimit(from, to)


(***************************************************************************)
(* C33: what check_rate_limit answers to an identity depends on that       *)
(* identity's own earlier messages and their times only: the answer is the *)
(* one a limiter gives that has seen the same calls of this identity and   *)
(* no call of any other identity.                                          *)
(***************************************************************************)
C33_OwnHistoryOnly ==
    ret.op = "check" =>
        /\ alone[ret.user].out.kind = ret.kind
        /\ alone[ret.user].out.allowed = ret.allowed
        /\ alone[ret.user].out.reason = ret.reason
        /\ alone[ret.user].out.retry_after = ret.retry_after


(***************************************************************************)
(* C34: a check rejected as blocked changes nothing that is kept for the   *)
(* identity (token bucket, counters, burst queue, last-message record) and *)
(* leaves blockUntil as it was; a check rejected as duplicate leaves the   *)
(* stored hash and timestamp as they were, takes no token and adds no      *)
(* burst or window event, so the duplicate window still runs from the time *)
(* of the message that was stored.                                         *)
(***************************************************************************)
\* the step took no token from the identity's bucket: the bucket is the object it
\* was, or one created full by this call
NoTokenTaken(user_id) ==
    IF user_id \in DOMAIN limiter.token_bucket
    THEN limiter'.token_bucket[user_id] = limiter.token_bucket[user_id]
    ELSE limiter'.token_bucket[user_id].tokens = limiter'.token_bucket[user_id].capacity * TokenUnit

NoEventAdded(user_id) ==
    /\ QueueOf(limiter'.burst_tracker, user_id) = QueueOf(limiter.burst_tracker, user_id)
    /\ RequestsOf(limiter'.minitue_counters, user_id) = RequestsOf(limiter.minitue_counters, user_id)
    /\ RequestsOf(limiter'.hour_counters, user_id) = RequestsOf(limiter.hour_counters, user_id)
    /\ RequestsOf(limiter'.day_counters, user_id) = RequestsOf(limiter.day_counters, user_id)

BlockedStepChangesNothing ==
    (IsCheckStep /\ ret'.kind = "return" /\ ret'.reason = BlockedReason) =>
        /\ limiter' = [limiter EXCEPT !.stats = limiter'.stats]
        /\ limiter'.blocked_users[ret'.user] = limiter.blocked_users[ret'.user]

DuplicateStepKeepsRecord ==
    (IsCheckStep /\ ret'.kind = "return" /\ ret'.reason = DuplicateReason) =>
        /\ limiter'.last_messages = limiter.last_messages
        /\ ret'.time - limiter'.last_messages[ret'.user].time < config.duplicate_message_window
        /\ NoTokenTaken(ret'.user)
        /\ NoEventAdded(ret'.user)

C34_RejectionsLeaveState ==
    [][BlockedStepChangesNothing /\ DuplicateStepKeepsRecord]_vars

\* a duplicate of a duplicate: the second and the third copy of a message were both
\* rejected, the third one 9 seconds after the first, whose time is the stored one
C34_Witness ==
    /\ ret.op = "check" /\ ret.kind = "return" /\ ret.reason = DuplicateReason
    /\ limiter.stats["spam_detected"] = 2
    /\ limiter.last_messages[ret.user].time = 0
    /\ ret.time = 9


(***************************************************************************)
(* C35: whatever the interleaving of concurrent check_rate_limit calls     *)
(* with each other, with the sweep one of them triggers and with           *)
(* unblock_user and reset_user_limits, no check in flight fails on an      *)
(* entry of the identity that another thread has removed meanwhile: every  *)
(* check ends with a decision.                                             *)
(***************************************************************************)
C35_NoCheckFailsOnRemoved ==
    /\ \A t \in 1..MaxThreads : race.threads[t].result # "KeyError"
    /\ race.sweep.result # "KeyError"


(***************************************************************************)
(* C36: once invalidate(c) has returned, no later get_or_create_rag(c)     *)
(* returns, as a cache hit, an engine built from client data that was read *)
(* before the invalidation, also when a get_or_create_rag(c) was building  *)
(* while invalidate ran.  A bot is stale when an invalidation of its       *)
(* client came after its client data was read; a call is overlapped when   *)
(* an invalidation of its client ran while it was in flight.               *)
(***************************************************************************)
C36_NoHitOnInvalidated ==
    \A t \in Tasks :
        (calls[t].pc = "returned" /\ calls[t].hit /\ ~calls[t].overlapped)
            => ~bots[calls[t].rag].stale


(***************************************************************************)
(* C37: after unblock_user has returned True for a blocked identity, the   *)
(* identity's next message, whenever it is sent, is allowed, provided it   *)
(* is not a duplicate, is within the length limit and does not exceed the  *)
(* hour or day limit.                                                      *)
(***************************************************************************)
\* the message is none of the cases the statement sets aside
WithinStatedLimits(S, cfg, u, m, t) ==
    /\ ~FailsDuplicate(S, cfg, u, m, t)
    /\ ~FailsLength(cfg, m)
    /\ CountWith(S.hour_counters, u, t, HourWindow) <= cfg.request_per_hour
    /\ CountWith(S.day_counters, u, t, DayWindow) <= cfg.request_per_day

FirstAfterUnblockStep ==
    (/\ ret.op = "unblock" /\ ret.allowed
     /\ IsCheckStep /\ ret'.user = ret.user
     /\ WithinStatedLimits(limiter, config, ret'.user, ret'.message, ret'.time))
        => (ret'.kind = "return" /\ ret'.allowed)

C37_AllowedAfterUnblock == [][FirstAfterUnblockStep]_vars


(***************************************************************************)
(* C38: with the suspicious threshold below the per-minute limit, as in    *)
(* the default configuration (100 and 300 a minute), no check returns the  *)
(* per-minute rejection (retryAfter 60): whenever the minute count is      *)
(* above the per-minute limit, the message is rejected by the suspicious   *)
(* block instead.                                                          *)
(***************************************************************************)
SuspiciousBelowPerMinute ==
    config.suspicious_requests_per_minitue < config.request_per_minitue

C38_NoPerMinuteRejection ==
    (ret.op = "check" /\ SuspiciousBelowPerMinute) =>
        /\ ~(ret.kind = "return" /\ ret.reason = MinuteReason)
        /\ (PassedTokenStage /\ MinuteCount > config.request_per_minitue)
               => Rejected(SuspiciousReason, config.block_durtion)

\* a message that brought the minute count above the per-minute limit was rejected
\* by the suspicious block
C38_Witness ==
    /\ ret.op = "check" /\ SuspiciousBelowPerMinute
    /\ PassedTokenStage
    /\ MinuteCount > config.request_per_minitue
    /\ Rejected(SuspiciousReason, config.block_durtion)

=============================================================================
